---- MODULE Spec2Model ----
(***************************************************************************)
(* automail-ai backend: the orchestration engine                           *)
(* (services/email_orchestrator.py) and the financial summary              *)
(* (services/email_finance.py).                                            *)
(*                                                                         *)
(* Spec     the batch operation process_recent_emails, stepping through    *)
(*          process_email for every listed message; every call to the mail *)
(*          provider, the classifier and the database is one step whose    *)
(*          outcome is chosen nondeterministically.                        *)
(* SpecFin  calculate_financial_summary applied to bounded lists of        *)
(*          transactions.                                                  *)
(***************************************************************************)
EXTENDS Integers, Sequences, FiniteSets, TLC

\* ------------------------------------------------------------------ bounds
MaxEmails == 2      \* messages the mail provider lists for one batch
MaxItems == 1       \* items a non-empty answer of an extractor holds
MaxTx == 2          \* transactions handed to calculate_financial_summary
MaxListed == 2      \* meetings, and todos, generate_email_analytics collects
MaxSaved == 2       \* items handed to one save call
MaxPad == 1         \* spaces before, and after, the text of a classifier answer
MaxRuns == 2        \* runs of one operation on the same mailbox, or list
MaxText == 3        \* characters of an answer to "does this email require a reply"

\* ------------------------------------------------------------- python data
\* Python's None.
None == [py |-> "None"]

\* x in xs, for a list xs.
Contains(xs, x) == \E i \in 1..Len(xs) : xs[i] = x

\* JSON values of an amount field: a number (in cents) or null.
JNum(n) == [json |-> "number", val |-> n]
JNull == [json |-> "null"]

\* dict.get(key, default) on a record.
Get(d, key, default) == IF key \in DOMAIN d THEN d[key] ELSE default

\* ---------------------------------------------------------------- messages
\* What the mail provider returns for message i (format='full'). A message is
\* well formed when payload.headers and the body data are present.
Subject(i) == <<"subject", i>>
Sender(i) == <<"from", i>>
Date(i) == <<"date", i>>
Body(i) == <<"body", i>>
ThreadId(i) == <<"thread", i>>

MsgData(i, wf) == [id |-> i, threadId |-> ThreadId(i), wellformed |-> wf]

\* ------------------------------------------------------- classifier answers
\* An element of a JSON list that is not a string, here the number 7. The
\* elements of a list are written as TLA+ strings: a JSON string as its
\* content, any other JSON value as its text in angle brackets.
NonString == "<7>"

\* One answer of the classifier call in classify_email_type: the call raises,
\* or it returns text that is not JSON, JSON that is no list, or a JSON list.
\* Nothing makes the classifier keep to the four service names, to strings,
\* or to naming a service once.
ServiceLists ==
    { <<>>,
      <<"tagging">>,
      <<"finance">>,
      <<"tagging", "reminders">>,
      <<"tagging", "auto_reply">>,
      <<"reminders", "finance", "auto_reply">>,
      <<"tagging", "spam", "tagging">>,
      <<NonString>> }

ClassifierAnswers ==
    { [kind |-> "raise", items |-> <<>>],
      [kind |-> "not_json", items |-> <<>>],
      [kind |-> "json_object", items |-> <<>>] }
    \cup { [kind |-> "json_list", items |-> xs] : xs \in ServiceLists }

\* classify_email_type with the classifier answering a: the except branch
\* (the call or json.loads raises), the isinstance check, the append.
classify_email_type_no_default(a) ==
    IF a.kind \in {"raise", "not_json"} THEN <<"tagging">>
    ELSE IF a.kind # "json_list" THEN <<"tagging">>
    ELSE a.items

classify_email_type(a) ==
    IF a.kind \in {"raise", "not_json"} THEN <<"tagging">>
    ELSE IF a.kind # "json_list" THEN <<"tagging">>
    ELSE IF ~Contains(a.items, "tagging") THEN Append(a.items, "tagging")
    ELSE a.items

\* ------------------------------------------------------------ reply policy
\* Answers of the classifier to "does this email require a reply", as lists
\* of characters.
ReplyAnswers ==
    { <<"y", "e", "s">>,
      <<" ", "Y", "e", "s", ".">>,
      <<"N", "o", ",", " ", "F", "Y", "I">>,
      <<"y", "e">> }

\* The characters str.strip() removes.
IsSpace(c) == c \in {" ", "\t", "\n", "\r"}

RECURSIVE LStrip(_)
LStrip(s) == IF s # <<>> /\ IsSpace(Head(s)) THEN LStrip(Tail(s)) ELSE s

RECURSIVE RStrip(_)
RStrip(s) ==
    IF s # <<>> /\ IsSpace(s[Len(s)]) THEN RStrip(SubSeq(s, 1, Len(s) - 1)) ELSE s

Strip(s) == RStrip(LStrip(s))

LowerChar(c) ==
    CASE c = "Y" -> "y"
      [] c = "E" -> "e"
      [] c = "S" -> "s"
      [] c = "N" -> "n"
      [] c = "O" -> "o"
      [] c = "F" -> "f"
      [] c = "I" -> "i"
      [] c = "D" -> "d"
      [] OTHER -> c

Lower(s) == [i \in 1..Len(s) |-> LowerChar(s[i])]

StartsWith(s, p) == Len(s) >= Len(p) /\ SubSeq(s, 1, Len(p)) = p

\* A decision that takes the text as it comes.
should_reply_verbatim(text) == StartsWith(text, <<"y", "e", "s">>)

\* claude_should_reply applied to the classifier's text.
should_reply_of(text) == StartsWith(Lower(Strip(text)), <<"y", "e", "s">>)

\* ---------------------------------------------------------- extracted items
\* The k items an extractor adapter returns for a message, with the source
\* fields the adapter attaches.
ReminderItem(i, k) ==
    [task |-> k, source |-> "email", source_subject |-> Subject(i)]

TransactionItem(i, k) ==
    [type |-> "expense", amount |-> JNum(k), currency |-> "USD",
     source |-> "email", source_subject |-> Subject(i),
     source_sender |-> Sender(i)]

\* The metadata process_email adds to each reminder.
EnrichReminder(r, m) ==
    [task |-> r.task, source |-> r.source, source_subject |-> r.source_subject,
     email_id |-> m.id, email_thread_id |-> m.threadId,
     sender |-> Sender(m.id), date |-> Date(m.id)]

\* The metadata process_email adds to each transaction.
EnrichTransaction(t, m) ==
    [type |-> t.type, amount |-> t.amount, currency |-> t.currency,
     source |-> t.source, source_subject |-> t.source_subject,
     source_sender |-> t.source_sender,
     email_id |-> m.id, email_thread_id |-> m.threadId,
     email_date |-> Date(m.id), body |-> Body(m.id)]

\* An extractor adapter returns no item, or a list of MaxItems items.
ExtractedCounts == {0, MaxItems}

\* ------------------------------------------------------------ persistence
\* Outcomes of one save call on a non-empty list: everything committed, no
\* connection, or an insert or the commit raises (caught inside the call).
SaveOutcomes == {"ok", "no_conn", "raises"}

\* A save call that reports success whatever happened.
save_returns_always(items, o) == TRUE

\* Return value of save_reminders_to_database / save_transactions_to_database.
save_returns(items, o) == items = <<>> \/ o = "ok"

IncomeTypes == {"income", "refund", "credit"}
ExpenseTypes == {"expense", "bill", "charge", "payment", "debit"}

\* Rows a successful save_reminders_to_database commits: one per reminder.
reminder_rows_of(items) == Len(items)

\* Rows a successful save_transactions_to_database commits: one per item
\* whose type maps to income or expense.
transaction_rows_of(items) ==
    Cardinality({k \in 1..Len(items) :
                    items[k].type \in IncomeTypes \cup ExpenseTypes})

\* ------------------------------------------------------------------- state
VARIABLES
    pc,               \* position of process_recent_emails
    save_to_db,       \* its argument
    messages,         \* ids listed by the mail provider
    processed,        \* its counter
    results,          \* its result list
    response,         \* what it returned, None while it runs
    tag_calls,        \* invocations of tag_emails by this run
    ppc,              \* position of the running process_email, "none" if none
    msg_data,         \* argument of the running process_email
    services,         \* its classification result
    pe_results,       \* its results dict
    reminders,        \* its extracted reminders
    transactions,     \* its extracted transactions
    should_reply,     \* its reply decision
    reply_body,       \* its generated reply
    calls,            \* calls made by the running (or last) process_email
    drafts,           \* drafts stored at the mail provider
    reminder_rows,    \* committed rows of table reminders, per message
    transaction_rows, \* committed rows of table email_transactions, per message
    fin_pc,           \* position of calculate_financial_summary
    fin_input,        \* its argument
    fin_summary,      \* its return value (None before it returns)
    an_pc,            \* position of generate_email_analytics
    all_meetings,     \* its list of extracted meetings
    all_todos,        \* its list of extracted todos
    an_raised_at,     \* the statement whose exception its except clause caught
    an_result,        \* its return value (None before it returns)
    sv_pc,            \* position of save_*_to_database
    sv_fn,            \* which of the two save functions runs
    sv_items,         \* its argument
    sv_i,             \* index of the item its loop is at
    sv_conn,          \* its connection: none, open, closed, dropped
    sv_opened,        \* connections opened so far
    sv_pending,       \* rows inserted in the open database transaction
    sv_table,         \* rows the database holds durably
    sv_raised_at,     \* the statement whose exception its except clause caught
    sv_ret,           \* its return value
    ex_pc,            \* position of a function that asks the classifier
    ex_fn,            \* which one runs: an extractor or claude_should_reply
    ex_response,      \* what the classifier call gave it
    ex_outcome,       \* how it ended: returned items, or an exception
    history,          \* what the earlier runs of the repeated operation returned
    route             \* the request process_single_email serves, if any

orch_vars ==
    <<pc, save_to_db, messages, processed, results, response, tag_calls,
      ppc, msg_data, services, pe_results, reminders, transactions,
      should_reply, reply_body, calls, drafts, reminder_rows, transaction_rows>>

fin_vars == <<fin_pc, fin_input, fin_summary>>

an_vars == <<an_pc, all_meetings, all_todos, an_raised_at, an_result>>

sv_vars ==
    <<sv_pc, sv_fn, sv_items, sv_i, sv_conn, sv_opened, sv_pending, sv_table,
      sv_raised_at, sv_ret>>

\* The state of the functions that process_recent_emails does not call, or
\* that are modelled step by step on their own.
ex_vars == <<ex_pc, ex_fn, ex_response, ex_outcome>>

aux_vars == <<fin_vars, an_vars, sv_vars, ex_vars, history, route>>

vars == <<orch_vars, aux_vars>>


MessageIds == 1..MaxEmails

OrchInit ==
    /\ pc = "start"
    /\ save_to_db \in BOOLEAN
    /\ messages = <<>>
    /\ processed = 0
    /\ results = <<>>
    /\ response = None
    /\ tag_calls = 0
    /\ ppc = "none"
    /\ msg_data = None
    /\ services = <<>>
    /\ pe_results = None
    /\ reminders = <<>>
    /\ transactions = <<>>
    /\ should_reply = FALSE
    /\ reply_body = None
    /\ calls = <<>>
    /\ drafts = <<>>
    /\ reminder_rows = [i \in MessageIds |-> 0]
    /\ transaction_rows = [i \in MessageIds |-> 0]

FinIdle ==
    /\ fin_pc = "idle"
    /\ fin_input = <<>>
    /\ fin_summary = None

AnIdle ==
    /\ an_pc = "start"
    /\ all_meetings = <<>>
    /\ all_todos = <<>>
    /\ an_raised_at = "nowhere"
    /\ an_result = None

SvIdle ==
    /\ sv_pc = "idle"
    /\ sv_fn \in {"save_transactions_to_database", "save_reminders_to_database"}
    /\ sv_items = <<>>
    /\ sv_i = 1
    /\ sv_conn = "none"
    /\ sv_opened = 0
    /\ sv_pending = <<>>
    /\ sv_table = <<>>
    /\ sv_raised_at = "nowhere"
    /\ sv_ret = "unset"

ExIdle ==
    /\ ex_pc = "idle"
    /\ ex_fn \in {"extract_financial_data_from_email",
                  "extract_reminders_from_email",
                  "extract_meetings_from_email"}
    /\ ex_response = None
    /\ ex_outcome = None

\* Nothing but process_recent_emails runs, for the first time.
AuxIdle ==
    /\ FinIdle
    /\ AnIdle
    /\ SvIdle /\ sv_fn = "save_transactions_to_database"
    /\ ExIdle /\ ex_fn = "extract_meetings_from_email"
    /\ history = <<>>
    /\ route = None

Init == OrchInit /\ AuxIdle

\* ------------------------------------------------- process_email: returning
\* The tagging sweep run after the first message.
AfterFirstEmail(n, msgs) == "tag"

\* Where process_recent_emails goes on after the n-th message: the for loop
\* takes the next message; after the last one comes the tagging sweep.
AfterEmail(n, msgs) == IF n < Len(msgs) THEN "fetch" ELSE "tag"

\* A batch that puts the newest entry first.
ReturnNewestFirst(val) ==
    /\ results' = <<val>> \o results
    /\ ppc' = "none"
    /\ pc' = AfterEmail(processed, messages)
    /\ UNCHANGED response

\* process_email returns val; process_recent_emails appends it to results and
\* goes on with the next listed message, or with the tagging sweep.
Return(val) ==
    /\ results' = Append(results, val)
    /\ ppc' = "none"
    /\ pc' = AfterEmail(processed, messages)
    /\ UNCHANGED response

ErrorEntry(e, m) ==
    [status |-> "error",
     message |-> <<"Error processing email: ", e>>,
     email_id |-> m.id]

\* An exception e inside process_email escapes process_email and ends the
\* batch in the except branch of process_recent_emails.
RaiseUncaught(e) ==
    /\ response' = [status |-> "error",
                    message |-> <<"Error processing emails: ", e>>]
    /\ ppc' = "none"
    /\ pc' = "done"
    /\ UNCHANGED results

\* An exception e inside process_email: its except branch returns the error
\* entry.
Raise(e) == Return(ErrorEntry(e, msg_data))

\* One entry of the call log: the function, its arguments, and how it ended
\* ("returned", "raised"); for classify_email_type and the save calls, which
\* always return, the outcome of the external call they made.
Call(fn, args, out) == [fn |-> fn, args |-> args, out |-> out]

\* The test guarding a branch of process_email: "tag" in services.
BranchAlways(svcs, tag) == TRUE

BranchSelected(svcs, tag) == Contains(svcs, tag)

\* The test guarding create_reply_draft once a reply was generated.
DraftAlways(save) == TRUE

DraftRequested(save) == save

\* The results dict with the reminders slot initialised to an empty result.
InitialResultsEager(m, svcs) ==
    [email_id |-> m.id,
     thread_id |-> m.threadId,
     subject |-> Subject(m.id),
     sender |-> Sender(m.id),
     date |-> Date(m.id),
     services_used |-> svcs,
     tagging |-> None,
     reminders |-> [found |-> 0, items |-> <<>>, saved_to_db |-> FALSE],
     finance |-> None,
     auto_reply |-> None]

\* The results dict as initialised by process_email.
InitialResults(m, svcs) ==
    [email_id |-> m.id,
     thread_id |-> m.threadId,
     subject |-> Subject(m.id),
     sender |-> Sender(m.id),
     date |-> Date(m.id),
     services_used |-> svcs,
     tagging |-> None,
     reminders |-> None,
     finance |-> None,
     auto_reply |-> None]

ExtractionResult(items, saved) ==
    [found |-> Len(items), items |-> items, saved_to_db |-> saved]

\* ------------------------------------------------ process_recent_emails
\* get_gmail_service or messages().list raises.
ListFails ==
    /\ pc = "start"
    /\ \E e \in {"get_gmail_service", "list"} :
          response' = [status |-> "error",
                       message |-> <<"Error processing emails: ", e>>]
    /\ pc' = "done"
    /\ UNCHANGED <<save_to_db, messages, processed, results, tag_calls, ppc,
                   msg_data, services, pe_results, reminders, transactions,
                   should_reply, reply_body, calls, drafts, reminder_rows,
                   transaction_rows, aux_vars>>

\* The mail provider lists n messages.
ListMessages ==
    /\ pc = "start"
    /\ \E n \in 0..MaxEmails :
          /\ messages' = [i \in 1..n |-> i]
          /\ IF n = 0
             THEN /\ response' = [status |-> "success",
                                  message |-> "No emails found",
                                  processed |-> 0,
                                  results |-> <<>>]
                  /\ pc' = "done"
             ELSE /\ response' = response
                  /\ pc' = "fetch"
    /\ processed' = 0
    /\ results' = <<>>
    /\ UNCHANGED <<save_to_db, tag_calls, ppc, msg_data, services, pe_results,
                   reminders, transactions, should_reply, reply_body, calls,
                   drafts, reminder_rows, transaction_rows, aux_vars>>

\* messages().get raises for the next listed message.
FetchFails ==
    /\ pc = "fetch"
    /\ processed' = processed + 1
    /\ response' = [status |-> "error",
                    message |-> <<"Error processing emails: ", "get">>]
    /\ pc' = "done"
    /\ UNCHANGED <<save_to_db, messages, results, tag_calls, ppc, msg_data,
                   services, pe_results, reminders, transactions, should_reply,
                   reply_body, calls, drafts, reminder_rows, transaction_rows,
                   aux_vars>>

\* messages().get returns the next listed message; process_email is entered.
Fetch ==
    /\ pc = "fetch"
    /\ processed' = processed + 1
    /\ \E wf \in BOOLEAN : msg_data' = MsgData(messages[processed + 1], wf)
    /\ pc' = "email"
    /\ ppc' = "classify"
    /\ services' = <<>>
    /\ pe_results' = None
    /\ reminders' = <<>>
    /\ transactions' = <<>>
    /\ should_reply' = FALSE
    /\ reply_body' = None
    /\ calls' = <<>>
    /\ UNCHANGED <<save_to_db, messages, results, response, tag_calls, drafts,
                   reminder_rows, transaction_rows, aux_vars>>

\* tag_emails raises: the except branch of process_recent_emails.
TagFails ==
    /\ pc = "tag"
    /\ tag_calls' = tag_calls + 1
    /\ response' = [status |-> "error",
                    message |-> <<"Error processing emails: ", "tag_emails">>]
    /\ pc' = "done"
    /\ UNCHANGED <<save_to_db, messages, processed, results, ppc, msg_data,
                   services, pe_results, reminders, transactions, should_reply,
                   reply_body, calls, drafts, reminder_rows, transaction_rows,
                   aux_vars>>

\* tag_emails returns {"tagged": ..., "details": [...]};
\* process_recent_emails returns its summary.
TagEmails ==
    /\ pc = "tag"
    /\ tag_calls' = tag_calls + 1
    /\ \E tagged \in 0..1 :
          response' = [status |-> "success",
                       message |-> <<"Processed", processed, "emails">>,
                       processed |-> processed,
                       tagging_result |-> [tagged |-> tagged,
                                           details |-> <<>>],
                       results |-> results]
    /\ pc' = "done"
    /\ UNCHANGED <<save_to_db, messages, processed, results, ppc, msg_data,
                   services, pe_results, reminders, transactions, should_reply,
                   reply_body, calls, drafts, reminder_rows, transaction_rows,
                   aux_vars>>

\* ------------------------------------------------------------ process_email
batch_frame == <<save_to_db, messages, processed, tag_calls>>

\* Headers, body and ids are read from msg_data (raises on a malformed
\* message), then the message is classified and the results dict initialised.
PE_Classify ==
    /\ pc = "email" /\ ppc = "classify"
    /\ IF ~msg_data.wellformed
       THEN /\ calls' = Append(calls, Call("read_message", <<>>, "raised"))
            /\ Raise("KeyError")
            /\ UNCHANGED <<services, pe_results>>
       ELSE \E a \in ClassifierAnswers :
               /\ services' = classify_email_type(a)
               /\ pe_results' = InitialResults(msg_data, services')
               /\ calls' = Append(calls,
                      Call("classify_email_type",
                           <<Subject(msg_data.id), Body(msg_data.id),
                             Sender(msg_data.id)>>, a.kind))
               /\ ppc' = "get_service"
               /\ UNCHANGED <<pc, results, response>>
    /\ UNCHANGED <<batch_frame, msg_data, reminders, transactions,
                   should_reply, reply_body, drafts, reminder_rows,
                   transaction_rows, aux_vars>>

\* service = get_gmail_service(); results["tagging"] = {"status": "requested"}
PE_GetService ==
    /\ pc = "email" /\ ppc = "get_service"
    /\ \E ok \in BOOLEAN :
          IF ok
          THEN /\ calls' = Append(calls,
                      Call("get_gmail_service", <<>>, "returned"))
               /\ pe_results' =
                     [pe_results EXCEPT !.tagging = [status |-> "requested"]]
               /\ ppc' = "reminders"
               /\ UNCHANGED <<pc, results, response>>
          ELSE /\ calls' = Append(calls,
                      Call("get_gmail_service", <<>>, "raised"))
               /\ Raise("get_gmail_service")
               /\ UNCHANGED pe_results
    /\ UNCHANGED <<batch_frame, msg_data, services, reminders, transactions,
                   should_reply, reply_body, drafts, reminder_rows,
                   transaction_rows, aux_vars>>

\* The reminders branch up to the save call.
PE_Reminders ==
    /\ pc = "email" /\ ppc = "reminders"
    /\ IF ~BranchSelected(services, "reminders")
       THEN /\ ppc' = "finance"
            /\ UNCHANGED <<reminders, pe_results, calls>>
       ELSE \E n \in ExtractedCounts :
               /\ reminders' =
                     [k \in 1..n |->
                        EnrichReminder(ReminderItem(msg_data.id, k), msg_data)]
               /\ calls' = Append(calls,
                      Call("extract_reminders_from_email",
                           <<Subject(msg_data.id), Body(msg_data.id)>>,
                           "returned"))
               /\ IF save_to_db /\ reminders' # <<>>
                  THEN /\ ppc' = "save_reminders"
                       /\ UNCHANGED pe_results
                  ELSE /\ pe_results' =
                             [pe_results EXCEPT
                                !.reminders = ExtractionResult(reminders', FALSE)]
                       /\ ppc' = "finance"
    /\ UNCHANGED <<batch_frame, pc, results, response, msg_data, services,
                   transactions, should_reply, reply_body, drafts,
                   reminder_rows, transaction_rows, aux_vars>>

\* save_success = save_reminders_to_database(reminders)
PE_SaveReminders ==
    /\ pc = "email" /\ ppc = "save_reminders"
    /\ \E o \in SaveOutcomes :
          /\ pe_results' =
                [pe_results EXCEPT
                   !.reminders =
                       ExtractionResult(reminders, save_returns(reminders, o))]
          /\ reminder_rows' =
                IF o = "ok"
                THEN [reminder_rows EXCEPT
                        ![msg_data.id] = @ + reminder_rows_of(reminders)]
                ELSE reminder_rows
          /\ calls' = Append(calls,
                 Call("save_reminders_to_database", reminders, o))
    /\ ppc' = "finance"
    /\ UNCHANGED <<batch_frame, pc, results, response, msg_data, services,
                   reminders, transactions, should_reply, reply_body, drafts,
                   transaction_rows, aux_vars>>

\* The finance branch up to the save call.
PE_Finance ==
    /\ pc = "email" /\ ppc = "finance"
    /\ IF ~BranchSelected(services, "finance")
       THEN /\ ppc' = "auto_reply"
            /\ UNCHANGED <<transactions, pe_results, calls>>
       ELSE \E n \in ExtractedCounts :
               /\ transactions' =
                     [k \in 1..n |->
                        EnrichTransaction(TransactionItem(msg_data.id, k),
                                          msg_data)]
               /\ calls' = Append(calls,
                      Call("extract_financial_data_from_email",
                           <<Subject(msg_data.id), Body(msg_data.id),
                             Sender(msg_data.id)>>, "returned"))
               /\ IF save_to_db /\ transactions' # <<>>
                  THEN /\ ppc' = "save_finance"
                       /\ UNCHANGED pe_results
                  ELSE /\ pe_results' =
                             [pe_results EXCEPT
                                !.finance =
                                    ExtractionResult(transactions', FALSE)]
                       /\ ppc' = "auto_reply"
    /\ UNCHANGED <<batch_frame, pc, results, response, msg_data, services,
                   reminders, should_reply, reply_body, drafts, reminder_rows,
                   transaction_rows, aux_vars>>

\* save_success = save_transactions_to_database(transactions)
PE_SaveFinance ==
    /\ pc = "email" /\ ppc = "save_finance"
    /\ \E o \in SaveOutcomes :
          /\ pe_results' =
                [pe_results EXCEPT
                   !.finance =
                       ExtractionResult(transactions,
                                        save_returns(transactions, o))]
          /\ transaction_rows' =
                IF o = "ok"
                THEN [transaction_rows EXCEPT
                        ![msg_data.id] = @ + transaction_rows_of(transactions)]
                ELSE transaction_rows
          /\ calls' = Append(calls,
                 Call("save_transactions_to_database", transactions, o))
    /\ ppc' = "auto_reply"
    /\ UNCHANGED <<batch_frame, pc, results, response, msg_data, services,
                   reminders, transactions, should_reply, reply_body, drafts,
                   reminder_rows, aux_vars>>

\* The auto_reply branch up to the reply decision; without the branch, or
\* with the decision "no", process_email returns.
PE_AutoReply ==
    /\ pc = "email" /\ ppc = "auto_reply"
    /\ IF ~BranchSelected(services, "auto_reply")
       THEN /\ Return(pe_results)
            /\ UNCHANGED <<should_reply, pe_results, calls>>
       ELSE \/ \E text \in ReplyAnswers :
                  /\ should_reply' = should_reply_of(text)
                  /\ calls' = Append(calls,
                         Call("claude_should_reply",
                              <<Subject(msg_data.id), Body(msg_data.id)>>,
                              "returned"))
                  /\ IF should_reply'
                     THEN /\ ppc' = "generate"
                          /\ UNCHANGED <<pe_results, pc, results, response>>
                     ELSE /\ pe_results' =
                                [pe_results EXCEPT
                                   !.auto_reply = [should_reply |-> FALSE]]
                          /\ Return(pe_results')
            \/ /\ calls' = Append(calls,
                      Call("claude_should_reply",
                           <<Subject(msg_data.id), Body(msg_data.id)>>,
                           "raised"))
               /\ Raise("claude_should_reply")
               /\ UNCHANGED <<should_reply, pe_results>>
    /\ UNCHANGED <<batch_frame, msg_data, services, reminders, transactions,
                   reply_body, drafts, reminder_rows, transaction_rows,
                   aux_vars>>

\* reply_body = claude_generate_reply(subject, body); without save_to_db
\* process_email returns here.
PE_GenerateReply ==
    /\ pc = "email" /\ ppc = "generate"
    /\ \E ok \in BOOLEAN :
          IF ok
          THEN /\ reply_body' = <<"reply", msg_data.id>>
               /\ calls' = Append(calls,
                      Call("claude_generate_reply",
                           <<Subject(msg_data.id), Body(msg_data.id)>>,
                           "returned"))
               /\ IF DraftRequested(save_to_db)
                  THEN /\ ppc' = "draft"
                       /\ UNCHANGED <<pe_results, pc, results, response>>
                  ELSE /\ pe_results' =
                             [pe_results EXCEPT
                                !.auto_reply =
                                    [should_reply |-> TRUE,
                                     reply_body |-> reply_body',
                                     draft_created |-> FALSE]]
                       /\ Return(pe_results')
          ELSE /\ calls' = Append(calls,
                      Call("claude_generate_reply",
                           <<Subject(msg_data.id), Body(msg_data.id)>>,
                           "raised"))
               /\ Raise("claude_generate_reply")
               /\ UNCHANGED <<reply_body, pe_results>>
    /\ UNCHANGED <<batch_frame, msg_data, services, reminders, transactions,
                   should_reply, drafts, reminder_rows, transaction_rows,
                   aux_vars>>

\* The draft create_reply_draft submits to the mail provider.
Draft(n, m, body) ==
    [id |-> n,
     threadId |-> m.threadId,
     in_reply_to |-> m.id,
     to |-> Sender(m.id),
     subject |-> <<"Re: ", Subject(m.id)>>,
     body |-> body]

\* A mail provider that keeps one draft per message replied to.
drafts_create_once(ds, d) ==
    IF \E k \in 1..Len(ds) : ds[k].in_reply_to = d.in_reply_to
    THEN ds
    ELSE Append(ds, d)

\* service.users().drafts().create(userId='me', body=...).execute(): the
\* mail provider stores one more draft.
drafts_create(ds, d) == Append(ds, d)

\* draft = create_reply_draft(...); process_email returns.
PE_CreateDraft ==
    /\ pc = "email" /\ ppc = "draft"
    /\ \E ok \in BOOLEAN :
          IF ok
          THEN LET d == Draft(Len(drafts) + 1, msg_data, reply_body) IN
               /\ drafts' = drafts_create(drafts, d)
               /\ calls' = Append(calls,
                      Call("create_reply_draft",
                           <<d.in_reply_to, d.threadId, d.to,
                             Subject(msg_data.id), d.body>>, "returned"))
               /\ pe_results' =
                     [pe_results EXCEPT
                        !.auto_reply =
                            [should_reply |-> TRUE,
                             reply_body |-> reply_body,
                             draft_created |-> TRUE,
                             draft_id |-> d.id,
                             draft_url |->
                                 <<"https://mail.google.com/mail/u/0/#drafts/",
                                   d.id>>]]
               /\ Return(pe_results')
          ELSE /\ calls' = Append(calls,
                      Call("create_reply_draft",
                           <<msg_data.id, msg_data.threadId,
                             Sender(msg_data.id), Subject(msg_data.id),
                             reply_body>>, "raised"))
               /\ Raise("create_reply_draft")
               /\ UNCHANGED <<drafts, pe_results>>
    /\ UNCHANGED <<batch_frame, msg_data, services, reminders, transactions,
                   should_reply, reply_body, reminder_rows, transaction_rows,
                   aux_vars>>

Next ==
    \/ ListFails
    \/ ListMessages
    \/ FetchFails
    \/ Fetch
    \/ PE_Classify
    \/ PE_GetService
    \/ PE_Reminders
    \/ PE_SaveReminders
    \/ PE_Finance
    \/ PE_SaveFinance
    \/ PE_AutoReply
    \/ PE_GenerateReply
    \/ PE_CreateDraft
    \/ TagFails
    \/ TagEmails

Spec == Init /\ [][Next]_vars

\* ------------------------------------------- process_recent_emails, repeated
\* The mail provider lists the one message of a mailbox that does not change
\* between the runs.
ListSameMessage ==
    /\ pc = "start"
    /\ messages' = <<1>>
    /\ pc' = "fetch"
    /\ processed' = 0
    /\ results' = <<>>
    /\ UNCHANGED <<response, save_to_db, tag_calls, ppc, msg_data, services,
                   pe_results, reminders, transactions, should_reply,
                   reply_body, calls, drafts, reminder_rows, transaction_rows,
                   aux_vars>>

\* process_recent_emails has returned and is called again with the same
\* arguments: its locals start afresh, the mail provider and the database
\* keep what the earlier runs stored.
RunAgain ==
    /\ pc = "done"
    /\ Len(history) < MaxRuns - 1
    /\ history' = Append(history, results)
    /\ pc' = "start"
    /\ messages' = <<>>
    /\ processed' = 0
    /\ results' = <<>>
    /\ response' = None
    /\ tag_calls' = 0
    /\ UNCHANGED <<save_to_db, ppc, msg_data, services, pe_results, reminders,
                   transactions, should_reply, reply_body, calls, drafts,
                   reminder_rows, transaction_rows, fin_vars, an_vars,
                   sv_vars, ex_vars, route>>

RerunNext ==
    \/ ListFails
    \/ ListSameMessage
    \/ FetchFails
    \/ Fetch
    \/ PE_Classify
    \/ PE_GetService
    \/ PE_Reminders
    \/ PE_SaveReminders
    \/ PE_Finance
    \/ PE_SaveFinance
    \/ PE_AutoReply
    \/ PE_GenerateReply
    \/ PE_CreateDraft
    \/ TagFails
    \/ TagEmails
    \/ RunAgain

SpecRerun == Init /\ [][RerunNext]_vars

\* ------------------------------------------------- calculate_financial_summary
\* str.lower() on the type strings of the model.
LowerType(t) ==
    CASE t = "Expense" -> "expense"
      [] t = "Refund" -> "refund"
      [] OTHER -> t

\* The exception calculate_financial_summary dies with when float() rejects
\* an amount.
Raised == [exception |-> "TypeError"]

EmptyDict == [k \in {} |-> 0]

\* d with d[key] = value, for a dict d.
DictSet(d, key, value) ==
    [k \in DOMAIN d \cup {key} |-> IF k = key THEN value ELSE d[k]]

\* The group a currency gets when it is first seen.
NewCurrencyGroup ==
    [total_income |-> 0,
     total_expenses |-> 0,
     net_cash_flow |-> 0,
     by_category |-> EmptyDict,
     recurring |-> [income |-> 0, expenses |-> 0]]

\* by_currency: a dict, which keeps its keys in insertion order.
EmptyByCurrency == [order |-> <<>>, data |-> EmptyDict]

\* The test that skips a transaction: amount or currency is missing.
SkippedIfBothMissing(t) ==
    "amount" \notin DOMAIN t /\ "currency" \notin DOMAIN t

Skipped(t) == "amount" \notin DOMAIN t \/ "currency" \notin DOMAIN t

CanFloat(a) == a.json = "number"

\* Summing that leaves the recurring subtotals alone.
AddToGroupNoRecurring(g, type, amount, category, is_recurring) ==
    LET cats == IF category \in DOMAIN g.by_category
                THEN g.by_category
                ELSE DictSet(g.by_category, category,
                             [income |-> 0, expenses |-> 0])
        c == cats[category]
    IN  IF type \in IncomeTypes
        THEN [g EXCEPT
                !.total_income = @ + amount,
                !.by_category =
                    DictSet(cats, category, [c EXCEPT !.income = @ + amount])]
        ELSE IF type \in ExpenseTypes
        THEN [g EXCEPT
                !.total_expenses = @ + amount,
                !.by_category =
                    DictSet(cats, category, [c EXCEPT !.expenses = @ + amount])]
        ELSE [g EXCEPT !.by_category = cats]

\* The group of a currency after a transaction of that currency is summed.
AddToGroup(g, type, amount, category, is_recurring) ==
    LET cats == IF category \in DOMAIN g.by_category
                THEN g.by_category
                ELSE DictSet(g.by_category, category,
                             [income |-> 0, expenses |-> 0])
        c == cats[category]
    IN  IF type \in IncomeTypes
        THEN [g EXCEPT
                !.total_income = @ + amount,
                !.by_category =
                    DictSet(cats, category, [c EXCEPT !.income = @ + amount]),
                !.recurring.income = IF is_recurring THEN @ + amount ELSE @]
        ELSE IF type \in ExpenseTypes
        THEN [g EXCEPT
                !.total_expenses = @ + amount,
                !.by_category =
                    DictSet(cats, category, [c EXCEPT !.expenses = @ + amount]),
                !.recurring.expenses = IF is_recurring THEN @ + amount ELSE @]
        ELSE [g EXCEPT !.by_category = cats]

\* One iteration of the loop over the transactions; bc is by_currency, or
\* Raised once float() has raised.
SumTransaction(bc, t) ==
    IF bc = Raised THEN Raised
    ELSE IF Skipped(t) THEN bc
    ELSE IF ~CanFloat(Get(t, "amount", JNum(0))) THEN Raised
    ELSE LET amount == Get(t, "amount", JNum(0)).val
             currency == Get(t, "currency", "USD")
             type == LowerType(Get(t, "type", ""))
             category == Get(t, "category", "uncategorized")
             is_recurring == Get(t, "recurring", FALSE)
             known == currency \in DOMAIN bc.data
             g == IF known THEN bc.data[currency] ELSE NewCurrencyGroup
         IN  [order |-> IF known THEN bc.order ELSE Append(bc.order, currency),
              data |-> DictSet(bc.data, currency,
                          AddToGroup(g, type, amount, category, is_recurring))]

RECURSIVE GroupByCurrency(_, _)
GroupByCurrency(bc, txs) ==
    IF txs = <<>> THEN bc
    ELSE GroupByCurrency(SumTransaction(bc, Head(txs)), Tail(txs))

\* The key of max(): total_income + total_expenses of a currency.
Volume(bc, c) == bc.data[c].total_income + bc.data[c].total_expenses

\* The first currency of by_currency.
FirstCurrency(bc) == bc.order[1]

\* max(by_currency.keys(), key=...): the first key, in insertion order, whose
\* key value is the largest.
PrimaryCurrency(bc) ==
    LET i == CHOOSE i \in 1..Len(bc.order) :
                /\ \A j \in 1..Len(bc.order) :
                      Volume(bc, bc.order[j]) <= Volume(bc, bc.order[i])
                /\ \A j \in 1..(i - 1) :
                      Volume(bc, bc.order[j]) < Volume(bc, bc.order[i])
    IN  bc.order[i]

\* The net_cash_flow field of a currency group, which the loop never updates.
StoredNetCashFlow(data) == data.net_cash_flow

\* data["total_income"] - data["total_expenses"]
NetCashFlow(data) == data.total_income - data.total_expenses

DefaultSummary ==
    [total_income |-> 0,
     total_expenses |-> 0,
     net_cash_flow |-> 0,
     currency |-> "USD",
     period |-> "Recent transactions",
     by_category |-> EmptyDict,
     recurring |-> [income |-> 0, expenses |-> 0]]

\* The summary built from by_currency.
SummaryOf(bc) ==
    IF bc.order = <<>> THEN DefaultSummary
    ELSE LET primary == PrimaryCurrency(bc)
             cs == bc.data[primary]
             main == [total_income |-> cs.total_income,
                      total_expenses |-> cs.total_expenses,
                      net_cash_flow |-> NetCashFlow(cs),
                      currency |-> primary,
                      period |-> "Recent transactions",
                      by_category |-> cs.by_category,
                      recurring |-> cs.recurring]
             others == [c \in DOMAIN bc.data \ {primary} |->
                          [total_income |-> bc.data[c].total_income,
                           total_expenses |-> bc.data[c].total_expenses,
                           net_cash_flow |-> NetCashFlow(bc.data[c])]]
         IN  IF Len(bc.order) > 1
             THEN DictSet(main, "other_currencies", others)
             ELSE main

calculate_financial_summary(txs) ==
    LET bc == GroupByCurrency(EmptyByCurrency, txs)
    IN  IF bc = Raised THEN Raised ELSE SummaryOf(bc)

\* Transactions as the finance adapter may hand them over: every field is
\* optional, and an amount may be null.
Variants ==
    { [k \in {} |-> 0],
      [category |-> "subscription", recurring |-> TRUE] }

\* r extended by the fields of v.
Merge(r, v) ==
    [k \in DOMAIN r \cup DOMAIN v |-> IF k \in DOMAIN v THEN v[k] ELSE r[k]]

CompleteTransactions ==
    { Merge([type |-> ty, amount |-> JNum(a), currency |-> c], v) :
        ty \in {"income", "Expense", "balance"},
        a \in {1, 2},
        c \in {"USD", "EUR"},
        v \in Variants }

IncompleteTransactions ==
    { [type |-> "expense", currency |-> "USD",
       category |-> "subscription", recurring |-> TRUE],
      [type |-> "income", currency |-> "GBP"],
      [type |-> "income", amount |-> JNum(2)],
      [type |-> "expense", amount |-> JNull],
      [type |-> "expense"] }

OddTransactions ==
    { [type |-> "expense", amount |-> JNull, currency |-> "USD"],
      [amount |-> JNum(1), currency |-> "EUR"],
      [type |-> "Refund", amount |-> JNum(-1), currency |-> "GBP"] }

\* A recurring subscription charge of 45.00, in cents.
SubscriptionCharge ==
    [type |-> "expense", amount |-> JNum(4500), currency |-> "USD",
     category |-> "subscription", recurring |-> TRUE]

TransactionInputs ==
    CompleteTransactions \cup IncompleteTransactions \cup OddTransactions
       \cup {SubscriptionCharge}

\* The caller collects one more transaction.
FinAdd ==
    /\ fin_pc = "idle"
    /\ Len(fin_input) < MaxTx
    /\ \E t \in TransactionInputs : fin_input' = Append(fin_input, t)
    /\ UNCHANGED <<fin_pc, fin_summary,
                 orch_vars, an_vars, sv_vars, ex_vars, history, route>>

\* summary = calculate_financial_summary(all_transactions)
FinCalculate ==
    /\ fin_pc = "idle"
    /\ fin_summary' = calculate_financial_summary(fin_input)
    /\ fin_pc' = IF fin_summary' = Raised THEN "raised" ELSE "returned"
    /\ UNCHANGED <<fin_input,
                 orch_vars, an_vars, sv_vars, ex_vars, history, route>>

FinInit == OrchInit /\ save_to_db /\ AuxIdle

FinNext == FinAdd \/ FinCalculate

SpecFin == FinInit /\ [][FinNext]_vars

\* --------------------------------------------------- generate_email_analytics
\* The characters of the model's strings in ascending code point order.
CodePoints ==
    <<"-", "0", "1", "2", "3", "9", "F", "a", "d", "i", "r", "y">>

\* a < b for two str values: lexicographic by code point.
RECURSIVE StrLess(_, _)
StrLess(a, b) ==
    LET Ord(c) == CHOOSE i \in 1..Len(CodePoints) : CodePoints[i] = c
    IN  IF b = <<>> THEN FALSE
        ELSE IF a = <<>> THEN TRUE
        ELSE IF Head(a) # Head(b) THEN Ord(Head(a)) < Ord(Head(b))
        ELSE StrLess(Tail(a), Tail(b))

JStr(s) == [json |-> "string", val |-> s]

\* '9999-12-31', the default of the two .get() calls of the sort keys.
FarFuture == <<"9", "9", "9", "9", "-", "1", "2", "-", "3", "1">>

\* Date and deadline texts the extractors may return.
Day2099 == <<"2", "0", "9", "9", "-", "0", "1", "-", "0", "1">>
Friday == <<"F", "r", "i", "d", "a", "y">>

\* Values of a "date" or "deadline" field that is present: JSON null or a
\* string, which need not be an ISO date.
DateValues == {JNull, JStr(Day2099), JStr(Friday)}

\* Meetings as extract_meetings_from_email returns them.
MeetingInputs ==
    {[title |-> "sync"]} \cup {[title |-> "sync", date |-> d] : d \in DateValues}

\* Todos as extract_reminders_from_email returns them.
TodoInputs ==
    LET Priorities == {"high", "low", "urgent"}
        Base == {[task |-> "reply"]}
                  \cup {[task |-> "reply", priority |-> p] : p \in Priorities}
    IN  Base \cup {Merge(b, [deadline |-> d]) : b \in Base, d \in DateValues}

\* lambda m: m.get('date', '9999-12-31'): the default replaces an absent
\* field only; a field that is present and null yields None.
meeting_sort_key(m) == Get(m, "date", JStr(FarFuture))

\* priority_values.get(priority, 1)
priority_values(p) ==
    CASE p = "high" -> 0
      [] p = "medium" -> 1
      [] p = "low" -> 2
      [] OTHER -> 1

todo_sort_key(todo) ==
    <<priority_values(Get(todo, "priority", "medium")),
      Get(todo, "deadline", JStr(FarFuture))>>

\* a < b on two keys of the meeting sort, both str.
DateLess(a, b) == StrLess(a.val, b.val)

\* a < b raises TypeError unless both keys are str (None < None raises too).
DateRaises(a, b) == a = JNull \/ b = JNull

\* a < b on two (priority, deadline) tuples: the first components decide
\* unless they are equal.
TupleLess(a, b) ==
    \/ a[1] < b[1]
    \/ a[1] = b[1] /\ a[2] # b[2] /\ StrLess(a[2].val, b[2].val)

\* Tuple comparison looks for the first position where the tuples differ
\* with ==, and applies < there: it raises TypeError when that position holds
\* None against a str.
TupleRaises(a, b) ==
    a[1] = b[1] /\ a[2] # b[2] /\ (a[2] = JNull \/ b[2] = JNull)

\* list.sort(key=...) raises, for keys: the keys of the list in order.
\* Sorting compares every element with another one, and any two elements
\* that end up next to each other with each other; so it raises exactly when
\* two keys of the list cannot be compared. raises[i, j] tells whether
\* keys[i] < keys[j] raises.
sort_raises(keys, raises) ==
    \E i, j \in 1..Len(keys) : i # j /\ raises[i, j]

\* The list after list.sort(key=...): ascending by key, elements with equal
\* keys in their original order. less[i, j] is keys[i] < keys[j].
sorted(xs, less) ==
    LET n == Len(xs)
        Before(j, k) == less[j, k] \/ (~less[k, j] /\ j < k)
        pos(k) == 1 + Cardinality({j \in 1..n : j # k /\ Before(j, k)})
    IN  [i \in 1..n |-> xs[CHOOSE k \in 1..n : pos(k) = i]]

\* service.users().messages().list(...): an exception, caught by the except
\* clause of generate_email_analytics.
AnListFails ==
    /\ an_pc = "start"
    /\ an_pc' = "done"
    /\ an_raised_at' = "list"
    /\ an_result' = [status |-> "error",
                     message |-> <<"Error generating email analytics: ",
                                   "GmailError">>]
    /\ UNCHANGED <<all_meetings, all_todos,
                 orch_vars, fin_vars, sv_vars, ex_vars, history, route>>

\* No message is listed: the early return.
AnNoEmails ==
    /\ an_pc = "start"
    /\ an_pc' = "done"
    /\ an_result' = [status |-> "success",
                     message |-> "No emails found",
                     processed |-> 0,
                     analytics |-> [meetings |-> <<>>, todos |-> <<>>]]
    /\ UNCHANGED <<all_meetings, all_todos, an_raised_at,
                 orch_vars, fin_vars, sv_vars, ex_vars, history, route>>

\* Messages are listed: the loop over them starts.
AnList ==
    /\ an_pc = "start"
    /\ an_pc' = "loop"
    /\ UNCHANGED <<all_meetings, all_todos, an_raised_at, an_result,
                 orch_vars, fin_vars, sv_vars, ex_vars, history, route>>

\* all_meetings.append(meeting), for a meeting extracted from a message.
AnAddMeeting ==
    /\ an_pc = "loop"
    /\ Len(all_meetings) < MaxListed
    /\ \E m \in MeetingInputs : all_meetings' = Append(all_meetings, m)
    /\ UNCHANGED <<an_pc, all_todos, an_raised_at, an_result,
                 orch_vars, fin_vars, sv_vars, ex_vars, history, route>>

\* all_todos.append(todo), for a todo extracted from a message.
AnAddTodo ==
    /\ an_pc = "loop"
    /\ Len(all_todos) < MaxListed
    /\ \E t \in TodoInputs : all_todos' = Append(all_todos, t)
    /\ UNCHANGED <<an_pc, all_meetings, an_raised_at, an_result,
                 orch_vars, fin_vars, sv_vars, ex_vars, history, route>>

\* After the loop: both lists are sorted and returned; a TypeError of a sort
\* ends in the except clause.
AnSortAndReturn ==
    /\ an_pc = "loop"
    /\ an_pc' = "done"
    /\ LET mkeys == [i \in 1..Len(all_meetings) |->
                        meeting_sort_key(all_meetings[i])]
           tkeys == [i \in 1..Len(all_todos) |-> todo_sort_key(all_todos[i])]
           meetings_raise ==
              sort_raises(mkeys, [i, j \in 1..Len(mkeys) |->
                                   DateRaises(mkeys[i], mkeys[j])])
           todos_raise ==
              sort_raises(tkeys, [i, j \in 1..Len(tkeys) |->
                                   TupleRaises(tkeys[i], tkeys[j])])
       IN  IF meetings_raise \/ todos_raise
           THEN /\ an_raised_at' = IF meetings_raise THEN "sort_meetings"
                                   ELSE "sort_todos"
                /\ an_result' =
                      [status |-> "error",
                       message |-> <<"Error generating email analytics: ",
                                     "TypeError">>]
                /\ UNCHANGED <<all_meetings, all_todos>>
           ELSE /\ all_meetings' =
                      sorted(all_meetings,
                             [i, j \in 1..Len(mkeys) |->
                                DateLess(mkeys[i], mkeys[j])])
                /\ all_todos' =
                      sorted(all_todos,
                             [i, j \in 1..Len(tkeys) |->
                                TupleLess(tkeys[i], tkeys[j])])
                /\ an_result' =
                      [status |-> "success",
                       message |-> "Processed emails",
                       analytics |-> [meetings |-> all_meetings',
                                      todos |-> all_todos']]
                /\ UNCHANGED an_raised_at
    /\ UNCHANGED <<orch_vars, fin_vars, sv_vars, ex_vars, history, route>>

AnInit == OrchInit /\ save_to_db /\ AuxIdle

AnNext ==
    \/ AnListFails
    \/ AnNoEmails
    \/ AnList
    \/ AnAddMeeting
    \/ AnAddTodo
    \/ AnSortAndReturn

SpecAnalytics == AnInit /\ [][AnNext]_vars


\* ------------------------------------------------------ save_*_to_database
Abs(n) == IF n < 0 THEN 0 - n ELSE n

\* re.match(r'^\d{4}-\d{2}-\d{2}$', s)
IsIsoDate(s) ==
    /\ Len(s) = 10
    /\ s[5] = "-" /\ s[8] = "-"
    /\ \A i \in {1, 2, 3, 4, 6, 7, 9, 10} :
          s[i] \in {"0", "1", "2", "3", "4", "5", "6", "7", "8", "9"}

\* sub in s, for two str values.
HasSubstring(s, sub) ==
    \E i \in 1..(Len(s) - Len(sub) + 1) : SubSeq(s, i, i + Len(sub) - 1) = sub

\* The truth value of a field that holds null or a string.
Truthy(v) == v # JNull /\ v.val # <<>>

\* A type mapping that stores every uncategorized transaction as an expense.
type_sql_expense_by_default(t) ==
    LET ty == LowerType(Get(t, "type", ""))
    IN  IF ty \in IncomeTypes THEN "income" ELSE "expense"

\* type_sql of a transaction; "skip" when the loop goes on with the next
\* transaction without inserting.
type_sql(t) ==
    LET ty == LowerType(Get(t, "type", ""))
    IN  IF ty \in IncomeTypes THEN "income"
        ELSE IF ty \in ExpenseTypes THEN "expense"
        ELSE "skip"

\* datetime.now().isoformat()
Now == [day |-> <<>>, time |-> "now"]

\* date_sql of a transaction.
date_sql(t) ==
    LET d == Get(t, "date", JNull)
    IN  IF Truthy(d) /\ IsIsoDate(d.val)
        THEN [day |-> d.val, time |-> "T00:00:00"]
        ELSE Now

\* The params of the INSERT of a transaction that is not skipped.
transaction_row(id, t) ==
    [id |-> id,
     type |-> type_sql(t),
     amount |-> Abs(Get(t, "amount", JNum(0)).val),
     currency |-> Get(t, "currency", "USD"),
     date |-> date_sql(t)]

\* deadline_sql of a reminder.
deadline_sql(r) ==
    LET d == Get(r, "deadline", JNull)
    IN  IF Truthy(d) /\ IsIsoDate(d.val) THEN d ELSE JNull

\* context of a reminder as it is inserted: f" (Deadline: {deadline})" is
\* appended to a context that does not mention the deadline.
context_sql(r) ==
    LET d == Get(r, "deadline", JNull)
        context == Get(r, "context", <<>>)
    IN  IF /\ Truthy(d) /\ ~IsIsoDate(d.val)
           /\ context # <<>>
           /\ ~HasSubstring(Lower(context), <<"d", "u", "e">>)
           /\ ~HasSubstring(Lower(context),
                            <<"d", "e", "a", "d", "l", "i", "n", "e">>)
        THEN context
                \o <<" ", "(", "D", "e", "a", "d", "l", "i", "n", "e", ":", " ">>
                \o d.val \o <<")">>
        ELSE context

\* The params of the INSERT of a reminder.
reminder_row(id, r) ==
    [id |-> id,
     task |-> Get(r, "task", ""),
     context |-> context_sql(r),
     deadline |-> deadline_sql(r),
     priority |-> Get(r, "priority", "medium")]

\* Transactions handed to save_transactions_to_database.
TransactionsToSave ==
    { [type |-> "income", amount |-> JNum(2), currency |-> "EUR",
       date |-> JStr(Day2099)],
      [type |-> "Expense", amount |-> JNum(-1), date |-> JStr(Friday)],
      [type |-> "balance", amount |-> JNull, currency |-> "USD"],
      [amount |-> JNum(1), currency |-> "USD"],
      [type |-> "expense", amount |-> JNull, currency |-> "USD"] }

\* Reminders handed to save_reminders_to_database.
RemindersToSave ==
    { [task |-> "reply"],
      [task |-> "reply", deadline |-> JStr(Day2099), priority |-> "high"],
      [task |-> "reply", deadline |-> JStr(Friday)],
      [task |-> "reply", deadline |-> JStr(Friday),
       context |-> <<"c", "a", "l", "l">>],
      [task |-> "reply", deadline |-> JStr(Friday),
       context |-> <<"D", "u", "e">>],
      [task |-> "reply", deadline |-> JNull, context |-> <<"c", "a", "l", "l">>] }

\* The caller puts one more item on the list it is going to save.
SvAdd ==
    /\ sv_pc = "idle"
    /\ history = <<>>
    /\ Len(sv_items) < MaxSaved
    /\ \E x \in IF sv_fn = "save_transactions_to_database"
                 THEN TransactionsToSave
                 ELSE RemindersToSave :
          sv_items' = Append(sv_items, x)
    /\ UNCHANGED <<sv_pc, sv_fn, sv_i, sv_conn, sv_opened, sv_pending,
                   sv_table, sv_raised_at, sv_ret,
                 orch_vars, fin_vars, an_vars, ex_vars, history, route>>

\* A save function that connects whatever the list holds.
EmptyListReturnsNever(items) == FALSE

\* if not transactions / if not reminders: return True
EmptyListReturns(items) == items = <<>>

\* The call, up to get_postgres_connection() returning a connection.
SvCall ==
    /\ sv_pc = "idle"
    /\ IF EmptyListReturns(sv_items)
       THEN /\ sv_pc' = "returned"
            /\ sv_ret' = "True"
            /\ UNCHANGED <<sv_conn, sv_opened>>
       ELSE /\ sv_pc' = "loop"
            /\ sv_conn' = "open"
            /\ sv_opened' = sv_opened + 1
            /\ UNCHANGED sv_ret
    /\ UNCHANGED <<sv_fn, sv_items, sv_i, sv_pending, sv_table, sv_raised_at,
                 orch_vars, fin_vars, an_vars, ex_vars, history, route>>

\* The call when get_postgres_connection() returns None: return False.
SvNoConnection ==
    /\ sv_pc = "idle"
    /\ ~EmptyListReturns(sv_items)
    /\ sv_pc' = "returned"
    /\ sv_ret' = "False"
    /\ UNCHANGED <<sv_fn, sv_items, sv_i, sv_conn, sv_opened, sv_pending,
                   sv_table, sv_raised_at,
                 orch_vars, fin_vars, an_vars, ex_vars, history, route>>

\* What the database holds once the connection is given up with inserts not
\* committed: the connection is not in autocommit mode, so the server rolls
\* the open transaction back.
TableIfAutocommit(table, pending) == table \o pending

TableAfterDrop(table, pending) == table

\* except Exception: return False. The connection is neither rolled back nor
\* closed; it goes away with the function's frame.
SvExcept(at) ==
    /\ sv_pc' = "returned"
    /\ sv_ret' = "False"
    /\ sv_raised_at' = at
    /\ sv_conn' = "dropped"
    /\ sv_table' = TableAfterDrop(sv_table, sv_pending)
    /\ sv_pending' = <<>>
    /\ UNCHANGED <<sv_fn, sv_items, sv_i, sv_opened,
                 orch_vars, fin_vars, an_vars, ex_vars, history, route>>

\* An identifier derived from the position of the item in the list.
PositionId == sv_i

\* uuid.uuid4(): an identifier no row has.
FreshId == Len(sv_table) + Len(sv_pending) + 1

\* One iteration of the loop that ends in `continue`.
SvSkip ==
    /\ sv_pc = "loop"
    /\ sv_i <= Len(sv_items)
    /\ sv_fn = "save_transactions_to_database"
    /\ type_sql(sv_items[sv_i]) = "skip"
    /\ sv_i' = sv_i + 1
    /\ UNCHANGED <<sv_pc, sv_fn, sv_items, sv_conn, sv_opened, sv_pending,
                   sv_table, sv_raised_at, sv_ret,
                 orch_vars, fin_vars, an_vars, ex_vars, history, route>>

InLoopBody ==
    /\ sv_pc = "loop"
    /\ sv_i <= Len(sv_items)
    /\ sv_fn = "save_transactions_to_database" =>
          type_sql(sv_items[sv_i]) # "skip"

\* float() of the amount raises.
FloatRaises(t) == ~CanFloat(Get(t, "amount", JNum(0)))

\* One iteration of the loop in which float(amount) raises.
SvFloatFails ==
    /\ InLoopBody
    /\ sv_fn = "save_transactions_to_database"
    /\ FloatRaises(sv_items[sv_i])
    /\ SvExcept("float")

\* INSERT ... ON CONFLICT (id) DO NOTHING in a transaction that sees the
\* rows of the table and its own inserts: a row whose id exists is not
\* inserted.
insert_on_conflict_do_nothing(table, pending, row) ==
    IF \E k \in 1..Len(table \o pending) : (table \o pending)[k].id = row.id
    THEN pending
    ELSE Append(pending, row)

\* One iteration of the loop up to cur.execute(query, params) returning.
SvExecute ==
    /\ InLoopBody
    /\ IF sv_fn = "save_transactions_to_database"
       THEN /\ ~FloatRaises(sv_items[sv_i])
            /\ sv_pending' =
                  insert_on_conflict_do_nothing(sv_table, sv_pending,
                      transaction_row(FreshId, sv_items[sv_i]))
       ELSE sv_pending' =
               insert_on_conflict_do_nothing(sv_table, sv_pending,
                   reminder_row(FreshId, sv_items[sv_i]))
    /\ sv_i' = sv_i + 1
    /\ UNCHANGED <<sv_pc, sv_fn, sv_items, sv_conn, sv_opened, sv_table,
                   sv_raised_at, sv_ret,
                 orch_vars, fin_vars, an_vars, ex_vars, history, route>>

\* One iteration of the loop in which cur.execute(query, params) raises.
SvExecuteFails ==
    /\ InLoopBody
    /\ sv_fn = "save_transactions_to_database" =>
          ~FloatRaises(sv_items[sv_i])
    /\ SvExcept("execute")

\* After the loop: conn.commit(), cur.close(), conn.close(), return True.
SvCommit ==
    /\ sv_pc = "loop"
    /\ sv_i > Len(sv_items)
    /\ sv_pc' = "returned"
    /\ sv_ret' = "True"
    /\ sv_conn' = "closed"
    /\ sv_table' = sv_table \o sv_pending
    /\ sv_pending' = <<>>
    /\ UNCHANGED <<sv_fn, sv_items, sv_i, sv_opened, sv_raised_at,
                 orch_vars, fin_vars, an_vars, ex_vars, history, route>>

\* After the loop: conn.commit() raises.
SvCommitFails ==
    /\ sv_pc = "loop"
    /\ sv_i > Len(sv_items)
    /\ SvExcept("commit")

\* After the loop: conn.commit() returns, then cur.close() or conn.close()
\* raises.
SvCloseFails ==
    /\ sv_pc = "loop"
    /\ sv_i > Len(sv_items)
    /\ sv_pc' = "returned"
    /\ sv_ret' = "False"
    /\ sv_raised_at' = "close"
    /\ sv_conn' = "dropped"
    /\ sv_table' = sv_table \o sv_pending
    /\ sv_pending' = <<>>
    /\ UNCHANGED <<sv_fn, sv_items, sv_i, sv_opened,
                 orch_vars, fin_vars, an_vars, ex_vars, history, route>>

SvInit ==
    /\ OrchInit /\ save_to_db /\ FinIdle /\ AnIdle /\ SvIdle
    /\ ExIdle /\ ex_fn = "extract_meetings_from_email"
    /\ history = <<>>
    /\ route = None

SvNext ==
    \/ SvAdd
    \/ SvCall
    \/ SvNoConnection
    \/ SvSkip
    \/ SvFloatFails
    \/ SvExecute
    \/ SvExecuteFails
    \/ SvCommit
    \/ SvCommitFails
    \/ SvCloseFails

SpecSave == SvInit /\ [][SvNext]_vars

\* The caller calls the save function once more with the same list; history
\* keeps what the earlier calls returned and where they raised.
SvCallAgain ==
    /\ sv_pc = "returned"
    /\ sv_items # <<>>
    /\ Len(history) < MaxRuns - 1
    /\ history' = Append(history, [ret |-> sv_ret, raised_at |-> sv_raised_at])
    /\ sv_pc' = "idle"
    /\ sv_i' = 1
    /\ sv_conn' = "none"
    /\ sv_raised_at' = "nowhere"
    /\ sv_ret' = "unset"
    /\ UNCHANGED <<sv_fn, sv_items, sv_opened, sv_pending, sv_table,
                   orch_vars, fin_vars, an_vars, ex_vars, route>>

ResaveNext ==
    \/ SvAdd
    \/ SvCall
    \/ SvNoConnection
    \/ SvSkip
    \/ SvFloatFails
    \/ SvExecute
    \/ SvExecuteFails
    \/ SvCommit
    \/ SvCommitFails
    \/ SvCloseFails
    \/ SvCallAgain

SpecResave == SvInit /\ [][ResaveNext]_vars

\* -------------------------------------------------------- extractor adapters
JList(items) == [json |-> "array", val |-> items]

\* Texts the classifier may answer an extraction prompt with, before padding.
ExtractionTexts ==
    { <<>>,
      <<"[", "]">>,
      <<"[", " ", "]">>,
      <<"{", "}">>,
      <<"7">>,
      <<"n", "u", "l", "l">>,
      <<"S", "u", "r", "e">>,
      <<"[", "{", "}", "]">>,
      <<"[", "7", "]">> }

\* What message.content[0].text may be: a text with spaces around it.
ExtractionResponses ==
    {[i \in 1..l |-> " "] \o t \o [i \in 1..r |-> " "] :
        l \in 0..MaxPad, r \in 0..MaxPad, t \in ExtractionTexts}

JSONDecodeError == [kind |-> "raise", exception |-> "JSONDecodeError"]

\* json.loads(content) on the texts of the model; a dict is a record of its
\* fields.
json_loads(content) ==
    CASE content \in {<<"[", "]">>, <<"[", " ", "]">>} -> JList(<<>>)
      [] content = <<"{", "}">> -> [json |-> "object"]
      [] content = <<"7">> -> JNum(7)
      [] content = <<"n", "u", "l", "l">> -> JNull
      [] content = <<"[", "{", "}", "]">> -> JList(<<EmptyDict>>)
      [] content = <<"[", "7", "]">> -> JList(<<JNum(7)>>)
      [] OTHER -> JSONDecodeError

\* The value is a dict: item assignment works on it.
IsDict(x) == "json" \notin DOMAIN x

\* The source fields an adapter sets on an item.
SourceFields(fn) ==
    IF fn = "extract_financial_data_from_email"
    THEN [source |-> "email", source_subject |-> "subject",
          source_sender |-> "sender"]
    ELSE IF fn = "extract_reminders_from_email"
    THEN [source |-> "email", source_subject |-> "subject"]
    ELSE EmptyDict

\* The try block of an adapter, from the classifier's answer on: the items
\* it returns, or the exception it raises.
TryExtract(fn, answer) ==
    IF answer.kind = "raise" THEN answer
    ELSE LET content == Strip(answer.text)
             parsed == json_loads(content)
         IN  IF content = <<>> \/ content = <<"[", "]">>
             THEN [kind |-> "return", items |-> <<>>]
             ELSE IF parsed = JSONDecodeError THEN JSONDecodeError
             ELSE IF parsed.json # "array"
             THEN [kind |-> "return", items |-> <<>>]
             ELSE IF fn = "extract_meetings_from_email"
             THEN [kind |-> "return", items |-> parsed.val]
             ELSE IF \E k \in 1..Len(parsed.val) : ~IsDict(parsed.val[k])
             THEN [kind |-> "raise", exception |-> "TypeError"]
             ELSE [kind |-> "return",
                   items |-> [k \in 1..Len(parsed.val) |->
                                Merge(parsed.val[k], SourceFields(fn))]]

\* An except clause that lets the exception go on to the caller.
ExceptReraises(raised) == raised

\* except Exception as e: return []
ExceptReturnsEmpty(raised) == [kind |-> "return", items |-> <<>>]

\* How a call of adapter fn ends.
extract_from_email(fn, answer) ==
    LET r == TryExtract(fn, answer)
    IN  IF r.kind = "raise" THEN ExceptReturnsEmpty(r) ELSE r

\* client.messages.create(...) returns a message.
ExCall ==
    /\ ex_pc = "idle"
    /\ \E t \in ExtractionResponses :
          ex_response' = [kind |-> "text", text |-> t]
    /\ ex_pc' = "called"
    /\ UNCHANGED <<ex_fn, ex_outcome,
                 orch_vars, fin_vars, an_vars, sv_vars, history, route>>

\* client.messages.create(...) raises.
ExCallFails ==
    /\ ex_pc = "idle"
    /\ ex_response' = [kind |-> "raise", exception |-> "APIError"]
    /\ ex_pc' = "called"
    /\ UNCHANGED <<ex_fn, ex_outcome,
                 orch_vars, fin_vars, an_vars, sv_vars, history, route>>

\* The rest of the adapter.
ExFinish ==
    /\ ex_pc = "called"
    /\ ex_outcome' = extract_from_email(ex_fn, ex_response)
    /\ ex_pc' = "done"
    /\ UNCHANGED <<ex_fn, ex_response,
                 orch_vars, fin_vars, an_vars, sv_vars, history, route>>

ExInit ==
    /\ OrchInit /\ save_to_db /\ FinIdle /\ AnIdle /\ ExIdle
    /\ SvIdle /\ sv_fn = "save_transactions_to_database"
    /\ history = <<>>
    /\ route = None

ExNext == ExCall \/ ExCallFails \/ ExFinish

SpecExtract == ExInit /\ [][ExNext]_vars

\* -------------------------------------------------------- claude_should_reply
\* What message.content[0].text may be for the reply question: the answers
\* above, and every text of at most MaxText characters of an alphabet.
ReplyTexts ==
    ReplyAnswers \cup
    UNION {[1..n -> {"y", "Y", "e", "E", "s", "S", " ", "\n"}] : n \in 0..MaxText}

\* client.messages.create(...) returns a message.
SrCall ==
    /\ ex_pc = "idle"
    /\ \E t \in ReplyTexts : ex_response' = [kind |-> "text", text |-> t]
    /\ ex_pc' = "called"
    /\ UNCHANGED <<ex_fn, ex_outcome,
                 orch_vars, fin_vars, an_vars, sv_vars, history, route>>

\* The rest of claude_should_reply: it has no try, so an exception of the
\* call is what the function ends in.
SrFinish ==
    /\ ex_pc = "called"
    /\ ex_outcome' =
          IF ex_response.kind = "raise"
          THEN ex_response
          ELSE [kind |-> "return", value |-> should_reply_of(ex_response.text)]
    /\ ex_pc' = "done"
    /\ UNCHANGED <<ex_fn, ex_response,
                 orch_vars, fin_vars, an_vars, sv_vars, history, route>>

SrInit ==
    /\ OrchInit /\ save_to_db /\ FinIdle /\ AnIdle
    /\ SvIdle /\ sv_fn = "save_transactions_to_database"
    /\ ex_pc = "idle" /\ ex_fn = "claude_should_reply"
    /\ ex_response = None /\ ex_outcome = None
    /\ history = <<>>
    /\ route = None

SrNext == SrCall \/ ExCallFails \/ SrFinish

SpecReply == SrInit /\ [][SrNext]_vars

\* ------------------------------------- POST /emails/process-one/{email_id}
\* except Exception as e: raise HTTPException(status_code=500, ...). The
\* clause encloses the whole body of process_single_email, and HTTPException
\* is an Exception: str(e) of an HTTPException is written <<code, detail>>.
RtExcept(e) ==
    route' = [route EXCEPT
                !.pc = "done",
                !.response = [status_code |-> 500,
                              detail |-> <<"Error processing email: ", e>>]]

\* The credentials are read from the token file and checked: valid ones go
\* on, expired ones with a refresh token are refreshed, and for any others
\* HTTPException(401) is raised, inside the try.
RtCredentials ==
    /\ route.pc = "start"
    /\ CASE route.creds = "malformed_token_file" -> RtExcept("JSONDecodeError")
         [] route.creds = "valid" -> route' = [route EXCEPT !.pc = "fetch"]
         [] route.creds = "expired_with_refresh_token" ->
               \/ route' = [route EXCEPT
                              !.pc = "fetch",
                              !.calls = Append(@, "creds.refresh")]
               \/ RtExcept("RefreshError")
         [] OTHER ->
               RtExcept(<<401, <<"Gmail authentication required">> >>)
    /\ UNCHANGED <<orch_vars, fin_vars, an_vars, sv_vars, ex_vars, history>>

\* build('gmail', 'v1', credentials=creds) and messages().get(id=email_id).
RtFetch ==
    /\ route.pc = "fetch"
    /\ \/ route' = [route EXCEPT
                     !.pc = "process",
                     !.calls = Append(@, "messages.get")]
       \/ RtExcept("HttpError")
    /\ UNCHANGED <<orch_vars, fin_vars, an_vars, sv_vars, ex_vars, history>>

\* result = process_email(msg_data, save_to_db=save_to_db): an error entry is
\* raised as HTTPException(500), inside the try; any other result is
\* returned.
RtProcess ==
    /\ route.pc = "process"
    /\ LET m == MsgData(route.email_id, TRUE) IN
       \E result \in {ErrorEntry("classifier", m)} \cup
                     {InitialResults(m, classify_email_type(a)) :
                         a \in ClassifierAnswers} :
          IF "status" \in DOMAIN result /\ result.status = "error"
          THEN RtExcept(<<500, result.message>>)
          ELSE route' = [route EXCEPT
                           !.pc = "done",
                           !.calls = Append(@, "process_email"),
                           !.response = [status_code |-> 200, body |-> result]]
    /\ UNCHANGED <<orch_vars, fin_vars, an_vars, sv_vars, ex_vars, history>>

\* A request arrives, with whatever the token file holds at that moment.
RtInit ==
    /\ OrchInit /\ save_to_db /\ FinIdle /\ AnIdle
    /\ SvIdle /\ sv_fn = "save_transactions_to_database"
    /\ ExIdle /\ ex_fn = "extract_meetings_from_email"
    /\ history = <<>>
    /\ route \in [pc : {"start"},
                  email_id : MessageIds,
                  save_to_db : BOOLEAN,
                  creds : {"no_token_file", "malformed_token_file", "valid",
                           "expired_with_refresh_token",
                           "expired_without_refresh_token", "invalid"},
                  calls : {<<>>},
                  response : {None}]

RtNext == RtCredentials \/ RtFetch \/ RtProcess

SpecRoute == RtInit /\ [][RtNext]_vars

\* ================================================================== claims
\* Helpers of the claims' formulas.
IsError(r) == "status" \in DOMAIN r

IsMerged(r) == "services_used" \in DOMAIN r

Called(fn) == {k \in 1..Len(calls) : calls[k].fn = fn}

\* The running process_email has returned or raised.
Terminated == ppc = "none" /\ calls # <<>>

MergedKeys ==
    {"email_id", "thread_id", "subject", "sender", "date", "services_used",
     "tagging", "reminders", "finance", "auto_reply"}

\* C1: whatever the classifier call does (it raises, it answers text that is
\* no JSON, JSON that is no list, or a list without "tagging"), the list
\* classify_email_type returns contains "tagging": in the running
\* process_email, and in services_used of every merged record.
C1_TaggingAlwaysPresent ==
    /\ Called("classify_email_type") # {} => Contains(services, "tagging")
    /\ \A i \in 1..Len(results) :
          IsMerged(results[i]) => Contains(results[i].services_used, "tagging")

\* C1 witness: the classifier answered a list without "tagging" and the
\* classification got it appended.
C1_Witness ==
    /\ \E k \in Called("classify_email_type") : calls[k].out = "json_list"
    /\ services = <<"finance", "tagging">>

\* C2: a failure inside one message's process_email leaves an error-shaped
\* entry {status, message, email_id} for that message in results, in place
\* of its merged record; the batch is not aborted by it, and every message
\* whose pipeline has ended has its own entry, in list order.
C2_ErrorIsolatedPerMessage ==
    /\ pc \in {"fetch", "tag"} => Len(results) = processed
    /\ pc = "email" => Len(results) = processed - 1
    /\ \A i \in 1..Len(results) :
          /\ results[i].email_id = messages[i]
          /\ IsError(results[i]) \/ IsMerged(results[i])
          /\ IsError(results[i]) =>
                /\ DOMAIN results[i] = {"status", "message", "email_id"}
                /\ results[i].status = "error"
    /\ Terminated /\ results # <<>> =>
          (calls[Len(calls)].out = "raised" <=> IsError(results[Len(results)]))
    /\ response # None /\ response.status = "error" =>
          \/ response.message[2] \in {"list", "get", "tag_emails"}
          \/ response.message[2] = "get_gmail_service" /\ processed = 0
    /\ response # None /\ response.status = "success" =>
          Len(response.results) = Len(messages)

\* C2 witness: the batch returned success with an error entry for the first
\* message and the merged record of the second.
C2_Witness ==
    /\ pc = "done"
    /\ response.status = "success"
    /\ Len(response.results) = 2
    /\ IsError(response.results[1])
    /\ IsMerged(response.results[2])

\* C3: create_reply_draft is called, and a draft exists, only for a message
\* whose classification contains "auto_reply", whose reply decision was
\* "needs reply", and in a run with save_to_db true.
C3_DraftOnlyIfDecidedAndSaving ==
    /\ Called("create_reply_draft") # {} =>
          /\ Contains(services, "auto_reply")
          /\ should_reply
          /\ save_to_db
    /\ \A k \in 1..Len(drafts) :
          /\ save_to_db
          /\ \E i \in 1..Len(results) :
                /\ results[i].email_id = drafts[k].in_reply_to
                /\ IsMerged(results[i])
                /\ Contains(results[i].services_used, "auto_reply")
                /\ results[i].auto_reply.should_reply
                /\ results[i].auto_reply.draft_id = drafts[k].id
    /\ \A i \in 1..Len(results) :
          IsMerged(results[i]) =>
             LET a == results[i].auto_reply
             IN  IF a # None /\ a.should_reply /\ save_to_db
                 THEN \E k \in 1..Len(drafts) :
                         /\ drafts[k].in_reply_to = results[i].email_id
                         /\ a.draft_created
                 ELSE /\ \A k \in 1..Len(drafts) :
                            drafts[k].in_reply_to # results[i].email_id
                      /\ a # None /\ a.should_reply => ~a.draft_created

\* C3 witness: a draft was created for a message.
C3_Witness ==
    /\ drafts # <<>>
    /\ Called("create_reply_draft") # {}
    /\ Terminated

\* C4: the reminder extraction, the finance extraction and the reply decision
\* are called only when "reminders", "finance", "auto_reply" is in the
\* message's classification, and each is called with fields of the message
\* alone (subject, body, sender), never with another branch's output.
C4_BranchOnlyIfTagged ==
    \A k \in 1..Len(calls) :
       LET c == calls[k]
           i == msg_data.id
       IN  /\ c.fn = "extract_reminders_from_email" =>
                 /\ Contains(services, "reminders")
                 /\ c.args = <<Subject(i), Body(i)>>
           /\ c.fn = "extract_financial_data_from_email" =>
                 /\ Contains(services, "finance")
                 /\ c.args = <<Subject(i), Body(i), Sender(i)>>
           /\ c.fn = "claude_should_reply" =>
                 /\ Contains(services, "auto_reply")
                 /\ c.args = <<Subject(i), Body(i)>>

\* C4 witness: a message tagged for reminders and not for finance went
\* through the reminder extraction and past the finance branch.
C4_Witness ==
    /\ ppc = "auto_reply"
    /\ Called("extract_reminders_from_email") # {}
    /\ Called("extract_financial_data_from_email") = {}
    /\ ~Contains(services, "finance")

\* A structured sub-result of the reminders or the finance branch.
IsExtractionResult(x) == DOMAIN x = {"found", "items", "saved_to_db"}

\* A structured sub-result of the auto_reply branch.
IsReplyResult(x) ==
    \/ DOMAIN x = {"should_reply"}
    \/ DOMAIN x = {"should_reply", "reply_body", "draft_created"}
    \/ DOMAIN x = {"should_reply", "reply_body", "draft_created", "draft_id",
                   "draft_url"}

\* C5: a record process_email returns without error has exactly the ten keys
\* of the merged shape; its reminders, finance and auto_reply slots are null
\* exactly when the tag is absent from services_used, and structured
\* sub-results otherwise.
C5_MergedShape ==
    \A i \in 1..Len(results) :
       LET r == results[i] IN
       ~IsError(r) =>
          /\ DOMAIN r = MergedKeys
          /\ r.reminders = None <=> ~Contains(r.services_used, "reminders")
          /\ r.finance = None <=> ~Contains(r.services_used, "finance")
          /\ r.auto_reply = None <=> ~Contains(r.services_used, "auto_reply")
          /\ r.reminders # None => IsExtractionResult(r.reminders)
          /\ r.finance # None => IsExtractionResult(r.finance)
          /\ r.auto_reply # None => IsReplyResult(r.auto_reply)

\* C5 witness: a merged record with a filled finance slot and null reminders
\* and auto_reply slots.
C5_Witness ==
    \E i \in 1..Len(results) :
       /\ IsMerged(results[i])
       /\ results[i].finance # None
       /\ results[i].reminders = None
       /\ results[i].auto_reply = None

FailedSaves(fn) == {k \in Called(fn) : calls[k].out # "ok"}

AnyCallRaised == \E k \in 1..Len(calls) : calls[k].out = "raised"

\* C6: with save_to_db true, a save call that fails (returns false) for the
\* reminders or for the finance items leaves the extracted items in the
\* record with saved_to_db false; the other save call and the draft creation
\* still happen, and the message does not end in Error because of it.
C6_SaveFailureIsNotFatal ==
    /\ \A k \in FailedSaves("save_reminders_to_database") :
          /\ save_to_db /\ calls[k].args # <<>>
          /\ pe_results.reminders = ExtractionResult(calls[k].args, FALSE)
    /\ \A k \in FailedSaves("save_transactions_to_database") :
          /\ save_to_db /\ calls[k].args # <<>>
          /\ pe_results.finance = ExtractionResult(calls[k].args, FALSE)
    /\ /\ FailedSaves("save_reminders_to_database") # {}
       /\ Contains(services, "finance")
       /\ ppc \in {"auto_reply", "generate", "draft", "none"}
       => /\ Called("extract_financial_data_from_email") # {}
          /\ transactions # <<>> =>
                Called("save_transactions_to_database") # {}
    /\ /\ FailedSaves("save_reminders_to_database")
             \cup FailedSaves("save_transactions_to_database") # {}
       /\ Terminated
       => /\ ~AnyCallRaised =>
                /\ results[Len(results)] = pe_results
                /\ Contains(services, "auto_reply") /\ should_reply =>
                      /\ \E k \in Called("create_reply_draft") :
                            calls[k].out = "returned"
                      /\ pe_results.auto_reply.draft_created
          /\ AnyCallRaised =>
                calls[Len(calls)].fn \in
                   {"claude_should_reply", "claude_generate_reply",
                    "create_reply_draft"}

\* C6 witness: the reminders save failed, the finance save succeeded, the
\* draft was created and the merged record was returned.
C6_Witness ==
    /\ Terminated
    /\ FailedSaves("save_reminders_to_database") # {}
    /\ \E k \in Called("save_transactions_to_database") : calls[k].out = "ok"
    /\ \E k \in Called("create_reply_draft") : calls[k].out = "returned"
    /\ IsMerged(results[Len(results)])
    /\ ~results[Len(results)].reminders.saved_to_db
    /\ results[Len(results)].finance.saved_to_db

\* C7 as stated: every run of process_recent_emails that returns success has
\* invoked tag_emails exactly once and carries tagging_result.
C7_Original ==
    pc = "done" /\ response.status = "success" =>
       /\ tag_calls = 1
       /\ "tagging_result" \in DOMAIN response

\* C7 amended: a run that listed at least one message and returns success has
\* invoked tag_emails exactly once, after the pipeline of every listed
\* message has ended, and carries its result as tagging_result; a run that
\* listed no message returns success without invoking tag_emails and without
\* tagging_result.
C7_TagSweepAfterNonEmptyBatch ==
    /\ tag_calls <= 1
    /\ pc = "tag" \/ tag_calls = 1 =>
          /\ ppc = "none"
          /\ messages # <<>>
          /\ Len(results) = Len(messages)
    /\ tag_calls = 1 => pc = "done"
    /\ response # None /\ response.status = "success" =>
          IF messages # <<>>
          THEN /\ tag_calls = 1
               /\ "tagging_result" \in DOMAIN response
               /\ response.results = results
               /\ response.processed = Len(messages)
          ELSE /\ tag_calls = 0
               /\ "tagging_result" \notin DOMAIN response

\* C7 witness: a successful run over two messages, with the sweep's result.
C7_Witness ==
    /\ pc = "done"
    /\ response.status = "success"
    /\ Len(messages) = 2
    /\ tag_calls = 1
    /\ "tagging_result" \in DOMAIN response

\* ------------------------------------------------- financial summary claims
HasAmountAndCurrency(t) == "amount" \in DOMAIN t /\ "currency" \in DOMAIN t

\* The currencies of the transactions that have an amount and a currency.
Currencies(txs) ==
    {txs[k].currency : k \in {j \in 1..Len(txs) : HasAmountAndCurrency(txs[j])}}

\* Sum of the amounts of the income and expense transactions of currency c.
RECURSIVE VolumeIn(_, _)
VolumeIn(txs, c) ==
    IF txs = <<>> THEN 0
    ELSE LET t == Head(txs)
             counts == /\ HasAmountAndCurrency(t)
                       /\ t.currency = c
                       /\ "type" \in DOMAIN t
                       /\ LowerType(t.type) \in IncomeTypes \cup ExpenseTypes
         IN  (IF counts THEN t.amount.val ELSE 0) + VolumeIn(Tail(txs), c)

\* Position of the first transaction that is summed under currency c.
FirstSeen(txs, c) ==
    CHOOSE k \in 1..Len(txs) :
       /\ HasAmountAndCurrency(txs[k]) /\ txs[k].currency = c
       /\ \A j \in 1..(k - 1) :
             ~(HasAmountAndCurrency(txs[j]) /\ txs[j].currency = c)

\* C8: in every summary calculate_financial_summary returns, net_cash_flow
\* equals total_income - total_expenses, at the top level and in every entry
\* of other_currencies.
C8_NetCashFlow ==
    fin_pc = "returned" =>
       /\ fin_summary.net_cash_flow =
             fin_summary.total_income - fin_summary.total_expenses
       /\ "other_currencies" \in DOMAIN fin_summary =>
             \A c \in DOMAIN fin_summary.other_currencies :
                LET o == fin_summary.other_currencies[c]
                IN  o.net_cash_flow = o.total_income - o.total_expenses

\* C8 witness: a summary over two currencies with a non-zero net cash flow at
\* the top level and in other_currencies.
C8_Witness ==
    /\ fin_pc = "returned"
    /\ fin_summary.net_cash_flow # 0
    /\ "other_currencies" \in DOMAIN fin_summary
    /\ \E c \in DOMAIN fin_summary.other_currencies :
          fin_summary.other_currencies[c].net_cash_flow # 0

C10_IncompleteItemsIgnored ==
    fin_pc # "idle" =>
       /\ fin_summary =
             calculate_financial_summary(
                SelectSeq(fin_input, HasAmountAndCurrency))
       /\ Currencies(fin_input) = {} => fin_summary = DefaultSummary

\* C10 witness: a summary over a list that holds a transaction without
\* amount, in a currency of its own, and a complete expense.
C10_Witness ==
    /\ fin_pc = "returned"
    /\ \E k \in 1..Len(fin_input) :
          /\ "amount" \notin DOMAIN fin_input[k]
          /\ "currency" \in DOMAIN fin_input[k]
          /\ fin_input[k].currency # fin_summary.currency
    /\ fin_summary.total_expenses > 0
    /\ "other_currencies" \notin DOMAIN fin_summary

\* Sum of the amounts of a list of transactions that all have a number as
\* amount.
RECURSIVE AmountSum(_)
AmountSum(txs) ==
    IF txs = <<>> THEN 0 ELSE Head(txs).amount.val + AmountSum(Tail(txs))

\* The type of a transaction as the summary compares it: lower-cased, and
\* empty when the field is missing.
TypeOf(t) == LowerType(Get(t, "type", ""))

\* C11: in every summary returned, for each currency total_income is the sum
\* of the amounts of that currency's items of type income, refund or credit
\* (types compared in lower case), total_expenses the sum for expense, bill,
\* charge, payment or debit, and items of any other type add nothing; for
\* the primary currency the recurring subtotals and each category's amounts
\* (category defaulting to "uncategorized") are the same sums restricted to
\* the recurring items and to the category's items. One recurring
\* subscription expense of 45.00 gives total_expenses = recurring.expenses =
\* by_category.subscription.expenses = 45.00.
C11_TypeBuckets ==
    fin_pc = "returned" =>
       LET Inc == {"income", "refund", "credit"}
           Exp == {"expense", "bill", "charge", "payment", "debit"}
           p == fin_summary.currency
           In(c, t) == HasAmountAndCurrency(t) /\ t.currency = c
           IncomeOf(c) ==
              LET Test(t) == In(c, t) /\ TypeOf(t) \in Inc
              IN  AmountSum(SelectSeq(fin_input, Test))
           ExpensesOf(c) ==
              LET Test(t) == In(c, t) /\ TypeOf(t) \in Exp
              IN  AmountSum(SelectSeq(fin_input, Test))
           RecurringOf(types) ==
              LET Test(t) == /\ In(p, t) /\ TypeOf(t) \in types
                             /\ Get(t, "recurring", FALSE)
              IN  AmountSum(SelectSeq(fin_input, Test))
           CategoryOf(cat, types) ==
              LET Test(t) == /\ In(p, t) /\ TypeOf(t) \in types
                             /\ Get(t, "category", "uncategorized") = cat
              IN  AmountSum(SelectSeq(fin_input, Test))
           Categories ==
              {Get(fin_input[k], "category", "uncategorized") :
                 k \in {j \in 1..Len(fin_input) : In(p, fin_input[j])}}
       IN  /\ Currencies(fin_input) # {} =>
                /\ fin_summary.total_income = IncomeOf(p)
                /\ fin_summary.total_expenses = ExpensesOf(p)
                /\ fin_summary.recurring.income = RecurringOf(Inc)
                /\ fin_summary.recurring.expenses = RecurringOf(Exp)
                /\ DOMAIN fin_summary.by_category = Categories
                /\ \A cat \in Categories :
                      /\ fin_summary.by_category[cat].income =
                            CategoryOf(cat, Inc)
                      /\ fin_summary.by_category[cat].expenses =
                            CategoryOf(cat, Exp)
                /\ \A c \in Currencies(fin_input) \ {p} :
                      /\ fin_summary.other_currencies[c].total_income =
                            IncomeOf(c)
                      /\ fin_summary.other_currencies[c].total_expenses =
                            ExpensesOf(c)
           /\ fin_input = <<SubscriptionCharge>> =>
                /\ fin_summary.total_expenses = 4500
                /\ fin_summary.recurring.expenses = 4500
                /\ fin_summary.by_category["subscription"].expenses = 4500

\* C11 witness: the summary of the recurring subscription expense of 45.00
\* and an item of the same currency whose type counts nowhere.
C11_Witness ==
    /\ fin_pc = "returned"
    /\ Len(fin_input) = 2
    /\ fin_summary.total_expenses = 4500
    /\ fin_summary.recurring.expenses = 4500
    /\ fin_summary.by_category["subscription"].expenses = 4500
    /\ \E k \in 1..2 :
          /\ HasAmountAndCurrency(fin_input[k])
          /\ fin_input[k].currency = "USD"
          /\ TypeOf(fin_input[k]) = "balance"

\* ------------------------------------------------------ analytics claims
\* The rank the claims give a todo: high 0, low 2, anything else 1.
RankOf(t) ==
    IF "priority" \notin DOMAIN t THEN 1
    ELSE IF t.priority = "high" THEN 0
    ELSE IF t.priority = "low" THEN 2
    ELSE 1

\* The field is present and not null.
HasField(x, f) == f \in DOMAIN x /\ x[f] # JNull

\* C12: for every list of extracted todos, generate_email_analytics returns
\* the list sorted ascending by (priority rank, deadline), high = 0,
\* medium = 1, low = 2, a missing or unrecognized priority ranked as medium;
\* within a priority tier every todo without deadline (absent or null) comes
\* after every todo with one. The sort of the todos therefore never fails.
C12_TodosByPriorityThenDeadline ==
    an_pc = "done" =>
       /\ an_raised_at # "sort_todos"
       /\ an_result.status = "success" =>
             LET ts == an_result.analytics.todos
             IN  \A i, j \in 1..Len(ts) :
                    i < j =>
                       /\ RankOf(ts[i]) <= RankOf(ts[j])
                       /\ RankOf(ts[i]) = RankOf(ts[j]) =>
                             /\ HasField(ts[j], "deadline") =>
                                   HasField(ts[i], "deadline")
                             /\ HasField(ts[i], "deadline")
                                   /\ HasField(ts[j], "deadline") =>
                                   ~StrLess(ts[j].deadline.val,
                                            ts[i].deadline.val)

\* C13: for every list of extracted meetings, generate_email_analytics
\* returns the list sorted ascending by date string, and every meeting
\* without date (absent or null) comes after every meeting with a date. The
\* sort of the meetings therefore never fails.
C13_MeetingsByDate ==
    an_pc = "done" =>
       /\ an_raised_at # "sort_meetings"
       /\ an_result.status = "success" =>
             LET ms == an_result.analytics.meetings
             IN  \A i, j \in 1..Len(ms) :
                    i < j =>
                       /\ HasField(ms[j], "date") => HasField(ms[i], "date")
                       /\ HasField(ms[i], "date") /\ HasField(ms[j], "date") =>
                             ~StrLess(ms[j].date.val, ms[i].date.val)

\* ----------------------------------------------------------- save claims
\* The type of a transaction is one the save function stores.
HasStoredType(t) ==
    /\ "type" \in DOMAIN t
    /\ LowerType(t.type) \in {"income", "refund", "credit", "expense", "bill",
                              "charge", "payment", "debit"}

\* The items the loop of the save call inserts a row for.
Insertable(t) ==
    sv_fn = "save_transactions_to_database" => HasStoredType(t)

\* Number of inserts executed before the loop reached item i.
ExecutedBefore(i) ==
    Cardinality({k \in 1..(i - 1) : Insertable(sv_items[k])})

\* C14: save_transactions_to_database and save_reminders_to_database called
\* with an empty list return true without any effect: no connection is
\* opened and no row is inserted or stored.
C14_EmptySaveIsNoOp ==
    sv_pc = "returned" /\ sv_items = <<>> =>
       /\ sv_ret = "True"
       /\ sv_opened = 0
       /\ sv_conn = "none"
       /\ sv_pending = <<>>
       /\ sv_table = <<>>

\* C14 witness: save_reminders_to_database has returned from a call with
\* the empty list.
C14_Witness ==
    /\ sv_pc = "returned"
    /\ sv_items = <<>>
    /\ sv_fn = "save_reminders_to_database"
    /\ sv_ret = "True"

C16_Original ==
    /\ sv_pc = "returned"
    /\ sv_raised_at \in {"float", "execute"}
    /\ ExecutedBefore(sv_i) > 0
    => /\ sv_ret = "False"
       /\ Len(sv_table) = ExecutedBefore(sv_i)

\* C16: when the insert of a later item raises after earlier inserts were
\* executed, the call returns false and no row of the call is stored: all
\* inserts of a call belong to one database transaction, committed after the
\* loop. A call that returns false has stored nothing, unless closing the
\* cursor or the connection failed after the commit; then it has stored a
\* row for every item it inserts.
C16_FailedSaveStoresNothing ==
    sv_pc = "returned" /\ sv_ret = "False" =>
       /\ sv_pending = <<>>
       /\ IF sv_raised_at = "close"
          THEN Len(sv_table) = ExecutedBefore(Len(sv_items) + 1)
          ELSE sv_table = <<>>

\* C16 witness: the second insert of a call raised after the first one was
\* executed.
C16_Witness ==
    /\ sv_pc = "returned"
    /\ sv_ret = "False"
    /\ sv_raised_at = "execute"
    /\ sv_i = 2
    /\ ExecutedBefore(sv_i) = 1
    /\ sv_table = <<>>

\* The calls of the save function that committed: the earlier ones, and the
\* current one once it has returned.
CommittedCalls ==
    LET done == IF sv_pc = "returned"
                THEN Append(history, [ret |-> sv_ret, raised_at |-> sv_raised_at])
                ELSE history
    IN  Cardinality({k \in 1..Len(done) :
                        done[k].ret = "True" \/ done[k].raised_at = "close"})

\* A stored row without its identifier.
SansId(row) == [f \in DOMAIN row \ {"id"} |-> row[f]]

\* C21: every insert of a save call uses an identifier generated for that
\* item in that call, so no insert is skipped on a conflict: the identifiers
\* of the stored rows are pairwise distinct, and when the same list has been
\* saved by several calls that committed, the table holds one row of every
\* item the loop inserts for each of those calls; two calls that returned
\* true have stored every such item twice.
C21_EverySaveInsertsAgain ==
    sv_items # <<>> /\ sv_pc \in {"idle", "returned"} =>
       LET kept == SelectSeq(sv_items, Insertable)
           n == Len(kept)
       IN  /\ \A j, k \in 1..Len(sv_table) :
                  sv_table[j].id = sv_table[k].id => j = k
           /\ Len(sv_table) = CommittedCalls * n
           /\ \A j \in 1..Len(sv_table) :
                  LET item == kept[((j - 1) % n) + 1]
                  IN  SansId(sv_table[j]) =
                         SansId(IF sv_fn = "save_transactions_to_database"
                                THEN transaction_row(0, item)
                                ELSE reminder_row(0, item))

\* C21 witness: two calls with the same list of two items returned true, and
\* the table holds four rows, the third a second row of the first item.
C21_Witness ==
    /\ sv_pc = "returned"
    /\ sv_ret = "True"
    /\ Len(history) = 1
    /\ history[1].ret = "True"
    /\ Len(sv_items) = 2
    /\ Len(sv_table) = 4
    /\ SansId(sv_table[3]) = SansId(sv_table[1])
    /\ sv_table[3].id # sv_table[1].id

\* C27: every save call that opens a database connection closes it before
\* returning, on the success path and on every failure path: when the call
\* has returned, the connection it opened, if any, has been closed by it.
C27_ConnectionClosedOnReturn ==
    sv_pc = "returned" => sv_conn \in {"none", "closed"}

\* C28: save_reminders_to_database stores, for every reminder whose deadline
\* is non-empty and not in strict YYYY-MM-DD form, a null deadline and a
\* context that contains the unparsed deadline text; a deadline in strict
\* YYYY-MM-DD form is stored unchanged, with the context unchanged. Stated
\* for the rows of a first call that committed, row k being that of item k.
C28_UnparsedDeadlineKeptInContext ==
    /\ sv_fn = "save_reminders_to_database"
    /\ sv_pc = "returned" /\ sv_ret = "True" /\ history = <<>>
    => \A k \in 1..Len(sv_items) :
          LET item == sv_items[k]
              row == sv_table[k]
          IN  "deadline" \in DOMAIN item /\ item.deadline # JNull
                 /\ item.deadline.val # <<>> =>
                 IF IsIsoDate(item.deadline.val)
                 THEN /\ row.deadline = item.deadline
                      /\ row.context = Get(item, "context", <<>>)
                 ELSE /\ row.deadline = JNull
                      /\ HasSubstring(row.context, item.deadline.val)

\* ------------------------------------------------------ extractor claims
\* The answer is one of those C17 is about: the call failed, or the text is
\* empty or blank, is "[]", is not JSON, or is JSON but not a list.
NoItemsExpected(answer) ==
    \/ answer.kind = "raise"
    \/ Strip(answer.text) \in
          { <<>>,
            <<"[", "]">>,
            <<"S", "u", "r", "e">>,
            <<"{", "}">>, <<"7">>, <<"n", "u", "l", "l">> }

\* C17: each extractor adapter returns zero items and raises no exception
\* when the classifier's answer is empty, blank, the text "[]", not JSON, or
\* JSON that is not a list, and also when the classifier call itself fails.
C17_NoItemsOnBadAnswer ==
    ex_pc = "done" /\ NoItemsExpected(ex_response) =>
       /\ ex_outcome.kind = "return"
       /\ ex_outcome.items = <<>>

\* C17 witness: extract_meetings_from_email has returned no item on a padded
\* answer that is not JSON.
C17_Witness ==
    /\ ex_pc = "done"
    /\ ex_fn = "extract_meetings_from_email"
    /\ ex_response.kind = "text"
    /\ Len(ex_response.text) > 4
    /\ Strip(ex_response.text) = <<"S", "u", "r", "e">>
    /\ ex_outcome = [kind |-> "return", items |-> <<>>]

\* ---------------------------------------------------- classification claims
ServiceTags == {"tagging", "reminders", "finance", "auto_reply"}

\* C18: classify_email_type returns exactly the list of the one tag
\* "tagging" whenever the classifier call fails or its answer is not a JSON
\* list of strings, a JSON list with an element that is not a string
\* included.
C18_OnlyTaggingUnlessListOfStrings ==
    \A k \in Called("classify_email_type") :
       \/ calls[k].out # "json_list"
       \/ \E i \in 1..Len(services) : services[i] = NonString
       => services = <<"tagging">>

\* C19: every element of a classification result, which is the
\* services_used of the merged record, is one of tagging, reminders, finance
\* and auto_reply, and no tag occurs twice in it.
C19_KnownTagsOnce ==
    \A k \in 1..Len(results) :
       IsMerged(results[k]) =>
          LET used == results[k].services_used
          IN  /\ \A i \in 1..Len(used) : used[i] \in ServiceTags
              /\ \A i, j \in 1..Len(used) : i # j => used[i] # used[j]

\* ---------------------------------------------------------- reply claims
\* C23: claude_should_reply returns true only if the classifier's response,
\* after trimming whitespace and lowercasing, starts with "yes", and false
\* for every other response: it returns true exactly when the response is a
\* run of whitespace followed by y, e, s in either case, whatever comes
\* after them.
C23_YesAfterStripAndLower ==
    ex_fn = "claude_should_reply" /\ ex_pc = "done"
       /\ ex_response.kind = "text" =>
       LET t == ex_response.text IN
       /\ ex_outcome.kind = "return"
       /\ ex_outcome.value <=>
             \E k \in 1..Len(t) :
                /\ k + 2 <= Len(t)
                /\ \A j \in 1..(k - 1) : t[j] \in {" ", "\t", "\n", "\r"}
                /\ t[k] \in {"y", "Y"}
                /\ t[k + 1] \in {"e", "E"}
                /\ t[k + 2] \in {"s", "S"}

\* C23 witness: the classifier answered " Yes." and claude_should_reply
\* returned true.
C23_Witness ==
    /\ ex_fn = "claude_should_reply"
    /\ ex_pc = "done"
    /\ ex_response = [kind |-> "text", text |-> <<" ", "Y", "e", "s", ".">>]
    /\ ex_outcome = [kind |-> "return", value |-> TRUE]

\* ------------------------------------------------------ operation claims
\* C22: every top-level operation returns, for every outcome of its
\* mail-provider, classifier and database calls, a result with a status of
\* success or error and a message, and lets no exception escape. Stated for
\* process_recent_emails and for the tagging sweep it calls: the response of
\* the batch has a status and a message, what tag_emails returned has a
\* status and a message too, and tag_emails never ends in an exception that
\* its caller has to catch.
C22_StructuredResults ==
    pc = "done" =>
       /\ response.status \in {"success", "error"}
       /\ "message" \in DOMAIN response
       /\ "tagging_result" \in DOMAIN response =>
             /\ "status" \in DOMAIN response.tagging_result
             /\ "message" \in DOMAIN response.tagging_result
       /\ tag_calls > 0 => response.status = "success"

\* C24: in process_recent_emails a failure after some messages were fully
\* processed (the fetch of a later message fails, or the tagging sweep fails)
\* does not abort the response: the response of a finished batch carries the
\* result of every message whose process_email has returned.
C24_PartialResultsReturned ==
    pc = "done" /\ results # <<>> =>
       /\ "results" \in DOMAIN response
       /\ response.results = results

\* The calls j and k of the log belong to the same process_email run: no
\* run starts between them.
SameRun(j, k) ==
    \A i \in (j + 1)..k :
       calls[i].fn \notin {"read_message", "classify_email_type"}

\* C25: within one process_email run no persistence call happens before
\* every extraction and the reply decision of that message have completed,
\* and draft creation happens after all persistence calls: in the call log
\* of a run no extraction and no reply decision follows a save call, and no
\* save call follows the creation of the draft.
C25_ExtractThenPersistThenDraft ==
    \A j, k \in 1..Len(calls) :
       j < k /\ SameRun(j, k) =>
          LET saves == {"save_reminders_to_database",
                        "save_transactions_to_database"}
          IN  /\ ~ /\ calls[j].fn \in saves
                   /\ calls[k].fn \in {"extract_reminders_from_email",
                                       "extract_financial_data_from_email",
                                       "claude_should_reply"}
              /\ ~ /\ calls[j].fn = "create_reply_draft"
                   /\ calls[k].fn \in saves

\* C26: process_recent_emails processes the messages one at a time in the
\* order the mail provider listed them: while the pipeline of a message runs
\* it is that of the message counted last and every earlier message has its
\* entry; the next message is fetched only when no pipeline runs; results[i]
\* is the entry of the i-th listed message; and a successful response has
\* processed equal to the length of its results and to the number of listed
\* messages.
C26_OneAtATimeInListedOrder ==
    /\ \A i \in 1..Len(results) : results[i].email_id = messages[i]
    /\ ppc # "none" =>
          /\ pc = "email"
          /\ Len(results) = processed - 1
          /\ msg_data.id = messages[processed]
    /\ pc \in {"fetch", "tag"} => ppc = "none" /\ Len(results) = processed
    /\ pc = "done" /\ response.status = "success" =>
          /\ response.processed = Len(response.results)
          /\ response.processed = Len(messages)
          /\ response.results = results

\* C26 witness: a batch of two listed messages has returned success with the
\* entries of both, in the listed order.
C26_Witness ==
    /\ pc = "done"
    /\ response.status = "success"
    /\ Len(messages) = 2
    /\ response.processed = 2
    /\ Len(response.results) = 2
    /\ response.results[1].email_id = messages[1]
    /\ response.results[2].email_id = messages[2]
    /\ messages[1] # messages[2]

\* C29: whenever a process_email run ends in Error, no side effect of that
\* run exists: no reminder row and no transaction row was committed, and no
\* draft was created, for the message of an error entry.
C29_ErrorHasNoSideEffect ==
    \A i \in 1..Len(results) :
       IsError(results[i]) =>
          /\ reminder_rows[results[i].email_id] = 0
          /\ transaction_rows[results[i].email_id] = 0
          /\ \A d \in 1..Len(drafts) :
                drafts[d].in_reply_to # results[i].email_id

\* C30: in process_single_email, when the stored credentials are missing, or
\* invalid and not refreshable, the caller receives the 401 "Gmail
\* authentication required" error raised at that check, and the message is
\* neither fetched nor processed.
C30_Unauthenticated401 ==
    /\ route.pc = "done"
    /\ route.creds \in {"no_token_file", "expired_without_refresh_token",
                        "invalid"}
    => /\ route.calls = <<>>
       /\ route.response.status_code = 401
       /\ route.response.detail = <<"Gmail authentication required">>

\* ------------------------------------------------------------ rerun claims
\* The record process_email returned reports a draft it created.
DraftReported(r) ==
    /\ IsMerged(r)
    /\ r.auto_reply # None
    /\ r.auto_reply.should_reply
    /\ r.auto_reply.draft_created

\* The result lists of all runs so far, the running one last.
AllRuns == Append(history, results)

\* The runs in which process_email reported a draft.
RunsWithDraft ==
    {h \in 1..Len(AllRuns) :
       \E k \in 1..Len(AllRuns[h]) : DraftReported(AllRuns[h][k])}

\* C20: draft creation is not idempotent and not guarded across runs: when
\* process_email runs k times on the same message and each run decides that a
\* reply is needed, with save_to_db true, the message's thread holds k drafts
\* in reply to the message; a run whose decision is "needs reply" creates its
\* draft whether or not an earlier run created one.
C20_OneDraftPerRun ==
    /\ Len(drafts) = Cardinality(RunsWithDraft)
    /\ \A d \in 1..Len(drafts) :
          /\ drafts[d].in_reply_to = 1
          /\ drafts[d].threadId = ThreadId(1)
    /\ \A h \in 1..Len(AllRuns) :
          \A k \in 1..Len(AllRuns[h]) :
             LET r == AllRuns[h][k]
             IN  /\ IsMerged(r)
                 /\ r.auto_reply # None
                 /\ r.auto_reply.should_reply
                 /\ save_to_db
                 => DraftReported(r)

\* C20 witness: two runs on the same message have each decided to reply and
\* created a draft; the thread holds two drafts in reply to the message.
C20_Witness ==
    /\ Len(history) = 1
    /\ RunsWithDraft = {1, 2}
    /\ Len(drafts) = 2
    /\ drafts[1].in_reply_to = drafts[2].in_reply_to
    /\ drafts[1].threadId = drafts[2].threadId
    /\ drafts[1].id # drafts[2].id

====
